---- MODULE Spec2Model ----
(***************************************************************************)
(* Document-intelligence platform: the analysis orchestration pipeline     *)
(* (routes/analysis.py, services/analysis_engine.py), its two stores       *)
(* (database/mongodb.py, database/redis_cache.py) and the shared           *)
(* knowledge-graph builder (models/knowledge_graph.py, routes/insights.py).*)
(*                                                                         *)
(* The service runs on one asyncio event loop.  A coroutine gives up the   *)
(* loop only where it awaits real I/O (a MongoDB or Redis round trip); an  *)
(* await of a coroutine that does no I/O (the analyzers, build_graph, the  *)
(* graph queries) runs to its end without any other task being scheduled.  *)
(* One action below is one such segment of a handler or background task.   *)
(***************************************************************************)
EXTENDS Integers, Sequences, FiniteSets, TLC

(***************************************************************************)
(* Bounds of the model.                                                    *)
(***************************************************************************)
\* analysis runs started in one behaviour
MaxRuns == 2
\* background tasks the event loop holds at one time
Slots == {"s1", "s2"}
\* the files users upload, by the document id the store gives them
Docs == {"d1", "d2"}
\* what process_document extracts from each file: text with named entities,
\* text without any
TextContent == [d \in Docs |-> IF d = "d1" THEN "named" ELSE "plain"]

VARIABLES
    documents,      \* db.documents: document id -> record
    entities,       \* db.entities: rows in insertion order
    analysis,       \* db.analysis: records in insertion order
    cache,          \* Redis: document id -> serialized "analysis:<id>:complete" value
    is_connected,   \* RedisCache.is_connected, set once by connect()
    tasks,          \* the background tasks run_analysis_task, by slot
    nruns,          \* analysis runs started so far
    writer,         \* document id -> the run whose cache write made the entry (0: none)
    graph,          \* kg_builder.graph, the shared KnowledgeGraphBuilder's field
    requests,       \* the graph-query requests in progress, by request id
    loop,           \* the coroutine the event loop is running ("free": none)
    call,           \* the arguments of the read handler or function being called
    reply           \* what that call returned

(***************************************************************************)
(* Helpers over sequences.                                                 *)
(***************************************************************************)
Range(s) == {s[i] : i \in DOMAIN s}

Min2(a, b) == IF a <= b THEN a ELSE b

MaxOf(S) == CHOOSE x \in S : \A y \in S : y <= x

\* Python's seq[:n]
Take(s, n) == SubSeq(s, 1, Min2(n, Len(s)))

(***************************************************************************)
(* KnowledgeGraphBuilder (models/knowledge_graph.py).                      *)
(* An entity is [text, label, start, end]; a relationship is               *)
(* [subject, relation, object].  A dict key that is absent is the value    *)
(* Missing.  A graph is [built, nodes, type, edges, relation]: nodes in    *)
(* insertion order, the type of each node, the set of directed (source,    *)
(* target) pairs and the relation of each pair.                            *)
(***************************************************************************)
Missing == "<missing>"

\* self.graph = None
NoGraph ==
    [built |-> FALSE, nodes |-> <<>>, type |-> <<>>, edges |-> {}, relation |-> <<>>,
     order |-> <<>>]

\* the slice limits of _create_implicit_connections
SourceLimit == 5
TargetLimit == 3

\* G.add_node per entity: one node per distinct text, in first-insertion order
RECURSIVE NodeOrder(_)
NodeOrder(ents) ==
    IF ents = <<>> THEN <<>>
    ELSE LET rest == NodeOrder(SubSeq(ents, 1, Len(ents) - 1))
             last == ents[Len(ents)].text
         IN  IF last \in Range(rest) THEN rest ELSE Append(rest, last)

\* a node that keeps the attributes of its first add_node
NodeTypeFirst(ents, t) ==
    ents[CHOOSE i \in DOMAIN ents :
            ents[i].text = t /\ \A j \in DOMAIN ents : ents[j].text = t => i <= j].label

\* add_node on an existing key updates its attributes: the last entity wins
NodeType(ents, t) ==
    ents[MaxOf({i \in DOMAIN ents : ents[i].text = t})].label

\* an explicit pass without the membership test
ValidRelsAny(rels, nodeSet) == DOMAIN rels

\* the relationships that pass "rel['subject'] in G.nodes and rel['object'] in G.nodes"
ValidRels(rels, nodeSet) ==
    {i \in DOMAIN rels : rels[i].subject \in nodeSet /\ rels[i].object \in nodeSet}

\* an add_edge that keeps the attributes of an existing pair
ExplicitRelationFirst(rels, valid, pair) ==
    LET same == {j \in valid : <<rels[j].subject, rels[j].object>> = pair}
        i == CHOOSE j \in same : \A k \in same : j <= k
    IN  IF rels[i].relation = Missing THEN "related_to" ELSE rels[i].relation

\* rel.get('relation', 'related_to'); add_edge on an existing pair overwrites
ExplicitRelation(rels, valid, pair) ==
    LET i == MaxOf({j \in valid : <<rels[j].subject, rels[j].object>> = pair})
    IN  IF rels[i].relation = Missing THEN "related_to" ELSE rels[i].relation

TextsLabelled(ents, label) ==
    LET idx == {i \in DOMAIN ents : ents[i].label = label}
        RECURSIVE Pick(_)
        Pick(i) == IF i > Len(ents) THEN <<>>
                   ELSE IF i \in idx THEN <<ents[i].text>> \o Pick(i + 1)
                   ELSE Pick(i + 1)
    IN  Pick(1)

\* a person-to-organisation rule without the slices
AssociatedPairsUnbounded(ents) ==
    Range(TextsLabelled(ents, "PERSON")) \X Range(TextsLabelled(ents, "ORG"))

\* a fallback without the organisation-to-location rule
LocatedPairsNone(ents) == {}

\* _create_implicit_connections: persons[:5] x orgs[:3], then orgs[:5] x locations[:3]
AssociatedPairs(ents) ==
    Range(Take(TextsLabelled(ents, "PERSON"), SourceLimit))
        \X Range(Take(TextsLabelled(ents, "ORG"), TargetLimit))

LocatedPairs(ents) ==
    Range(Take(TextsLabelled(ents, "ORG"), SourceLimit))
        \X Range(Take(TextsLabelled(ents, "GPE"), TargetLimit))

\* the pairs <<a[i], b[j]>> in the order of "for x in a: for y in b"
Cross(a, b) ==
    [k \in 1..(Len(a) * Len(b)) |->
        <<a[((k - 1) \div Len(b)) + 1], b[((k - 1) % Len(b)) + 1]>>]

\* the elements of a sequence in the order of their first occurrence: the key
\* order of the dict that G.add_edge fills (adding a key again keeps its place)
RECURSIVE FirstOccurrences(_)
FirstOccurrences(seq) ==
    IF seq = <<>> THEN <<>>
    ELSE LET rest == FirstOccurrences(SubSeq(seq, 1, Len(seq) - 1))
             last == seq[Len(seq)]
         IN  IF last \in Range(rest) THEN rest ELSE Append(rest, last)

\* the add_edge calls of the explicit pass, in the order of the relationships
ExplicitInsertions(rels, nodeSet) ==
    LET RECURSIVE Pick(_)
        Pick(i) == IF i > Len(rels) THEN <<>>
                   ELSE IF i \in ValidRels(rels, nodeSet)
                        THEN <<(<<rels[i].subject, rels[i].object>>)>> \o Pick(i + 1)
                        ELSE Pick(i + 1)
    IN  Pick(1)

\* the add_edge calls of _create_implicit_connections, in the order of its loops
ImplicitInsertions(ents) ==
    Cross(Take(TextsLabelled(ents, "PERSON"), SourceLimit),
          Take(TextsLabelled(ents, "ORG"), TargetLimit))
    \o Cross(Take(TextsLabelled(ents, "ORG"), SourceLimit),
             Take(TextsLabelled(ents, "GPE"), TargetLimit))

\* the KeyError cases inside build_graph's try block
BuildRaises(ents, rels) ==
    \/ \E i \in DOMAIN ents : ents[i].text = Missing \/ ents[i].label = Missing
    \/ \E i \in DOMAIN rels :
          \/ rels[i].subject = Missing
          \/ rels[i].subject \in {ents[j].text : j \in DOMAIN ents}
             /\ rels[i].object = Missing

\* the DiGraph G that build_graph constructs when nothing raises
BuiltGraph(ents, rels) ==
    LET order    == NodeOrder(ents)
        nodeSet  == Range(order)
        valid    == ValidRels(rels, nodeSet)
        explicit == {<<rels[i].subject, rels[i].object>> : i \in valid}
        fallback == rels = <<>> \/ explicit = {}
        located  == LocatedPairs(ents)
        implicit == AssociatedPairs(ents) \cup located
        edgeSet  == IF fallback THEN implicit ELSE explicit
    IN  [built    |-> TRUE,
         order    |-> FirstOccurrences(IF fallback THEN ImplicitInsertions(ents)
                                       ELSE ExplicitInsertions(rels, nodeSet)),
         nodes    |-> order,
         type     |-> [t \in nodeSet |-> NodeType(ents, t)],
         edges    |-> edgeSet,
         relation |-> [p \in edgeSet |->
                          IF fallback
                          THEN IF p \in located THEN "located_in" ELSE "associated_with"
                          ELSE ExplicitRelation(rels, valid, p)]]

\* self.graph after build_graph(ents, rels): line 68 is reached only when nothing
\* raised; the except branch returns the error result and leaves self.graph alone
GraphAfterBuild(old, ents, rels) ==
    IF BuildRaises(ents, rels) THEN old ELSE BuiltGraph(ents, rels)

\* self.graph.neighbors(node): the successors of node in the DiGraph
Successors(g, node) == {p[2] : p \in {q \in g.edges : q[1] = node}}

\* the BFS of get_entity_neighbors for depth /= 1
RECURSIVE Levels(_, _, _, _)
Levels(g, current, found, k) ==
    IF k = 0 THEN found
    ELSE LET next == UNION {Successors(g, n) : n \in current}
         IN  Levels(g, next, found \cup next, k - 1)

\* neighbors that also follow edges against their direction
EntityNeighborsUndirected(g, entity, depth) ==
    LET both == [g EXCEPT !.edges = g.edges \cup {<<p[2], p[1]>> : p \in g.edges}]
    IN  IF ~g.built \/ g.nodes = <<>> \/ entity \notin Range(g.nodes) THEN {}
        ELSE IF depth = 1 THEN Successors(both, entity)
        ELSE Levels(both, {entity}, {}, depth) \ {entity}

\* neighbors that drop the origin at every depth
EntityNeighborsStrict(g, entity, depth) ==
    IF ~g.built \/ g.nodes = <<>> \/ entity \notin Range(g.nodes) THEN {}
    ELSE Levels(g, {entity}, {}, depth) \ {entity}

\* get_entity_neighbors(entity, depth): the set of neighbor ids returned
EntityNeighbors(g, entity, depth) ==
    IF ~g.built \/ g.nodes = <<>> \/ entity \notin Range(g.nodes) THEN {}
    ELSE IF depth = 1 THEN Successors(g, entity)
    ELSE Levels(g, {entity}, {}, depth) \ {entity}

\* nx.density(G) of a DiGraph, as the fraction <<numerator, denominator>>:
\* 0 without edges or with at most one node, else m / (n * (n - 1))
DensityUndirected(n, m) ==
    IF m = 0 \/ n <= 1 THEN <<0, 1>> ELSE <<2 * m, n * (n - 1)>>

Density(n, m) ==
    IF m = 0 \/ n <= 1 THEN <<0, 1>> ELSE <<m, n * (n - 1)>>

\* statistics = {} of the error result
NoStatistics == [total_nodes |-> -1, total_edges |-> -1, density |-> <<-1, 1>>]

\* a build_graph without its try/except: the KeyError reaches the caller
GraphDataUncaught(ents, rels) ==
    IF BuildRaises(ents, rels)
    THEN [raised |-> TRUE, error |-> "", nodes |-> {}, type |-> <<>>, edges |-> {},
          statistics |-> NoStatistics]
    ELSE LET G == BuiltGraph(ents, rels)
         IN  [raised |-> FALSE, error |-> "",
              nodes |-> Range(G.nodes),
              type |-> G.type,
              edges |-> {[source |-> p[1], target |-> p[2], relation |-> G.relation[p]] :
                            p \in G.edges},
              statistics |-> [total_nodes |-> Len(G.nodes),
                              total_edges |-> Cardinality(G.edges),
                              density |-> Density(Len(G.nodes), Cardinality(G.edges))]]

\* what build_graph returns: the node keys with their type, the edges with
\* their relation and the statistics of G, or the error result of the except
\* branch, which takes in the whole body; raised says whether an exception
\* reached the caller
GraphData(ents, rels) ==
    IF BuildRaises(ents, rels)
    THEN [raised |-> FALSE, error |-> "error", nodes |-> {}, type |-> <<>>, edges |-> {},
          statistics |-> NoStatistics]
    ELSE LET G == BuiltGraph(ents, rels)
         IN  [raised |-> FALSE, error |-> "",
              nodes |-> Range(G.nodes),
              type |-> G.type,
              edges |-> {[source |-> p[1], target |-> p[2], relation |-> G.relation[p]] :
                            p \in G.edges},
              statistics |-> [total_nodes |-> Len(G.nodes),
                              total_edges |-> Cardinality(G.edges),
                              density |-> Density(Len(G.nodes), Cardinality(G.edges))]]

\* the successors of node in the order of G's adjacency dict
Adjacent(g, node) ==
    LET RECURSIVE Pick(_)
        Pick(i) == IF i > Len(g.order) THEN <<>>
                   ELSE IF g.order[i][1] = node
                        THEN <<g.order[i][2]>> \o Pick(i + 1)
                        ELSE Pick(i + 1)
    IN  Pick(1)

\* find_paths: cutoff=4 and paths[:10]
Cutoff == 4
PathLimit == 10

\* the depth-first generator behind nx.all_simple_paths for one target: the
\* children of the path's last node are tried in adjacency order; the target
\* ends a path, another node not yet on the path is entered while the path
\* may still grow, k being the number of edges the path may still take
RECURSIVE SimplePathsFrom(_, _, _, _)
SimplePathsFrom(g, path, target, k) ==
    LET adj == Adjacent(g, path[Len(path)])
        RECURSIVE Over(_)
        Over(i) ==
            IF i > Len(adj) THEN <<>>
            ELSE (IF adj[i] = target THEN <<Append(path, target)>>
                  ELSE IF adj[i] \notin Range(path) /\ k > 1
                       THEN SimplePathsFrom(g, Append(path, adj[i]), target, k - 1)
                       ELSE <<>>)
                 \o Over(i + 1)
    IN  Over(1)

\* list(nx.all_simple_paths(G, source, target, cutoff)).  For source = target
\* the library's releases differ: some yield nothing, some the one-node path
\* [source]; yieldsSelf says which release is installed
AllSimplePaths(g, source, target, cutoff, yieldsSelf) ==
    IF source = target
    THEN IF yieldsSelf THEN << <<source>> >> ELSE <<>>
    ELSE SimplePathsFrom(g, <<source>>, target, cutoff)

\* a find_paths without the cutoff argument
FindPathsNoCutoff(g, source, target, yieldsSelf) ==
    IF ~g.built \/ g.nodes = <<>> THEN <<>>
    ELSE IF source \in Range(g.nodes) /\ target \in Range(g.nodes)
    THEN Take(AllSimplePaths(g, source, target, Len(g.nodes), yieldsSelf), PathLimit)
    ELSE <<>>

\* find_paths(source, target): [] without a graph ("not self.graph" is also
\* true of a graph without nodes) and when an endpoint is no node
FindPaths(g, source, target, yieldsSelf) ==
    IF ~g.built \/ g.nodes = <<>> THEN <<>>
    ELSE IF source \in Range(g.nodes) /\ target \in Range(g.nodes)
    THEN Take(AllSimplePaths(g, source, target, Cutoff, yieldsSelf), PathLimit)
    ELSE <<>>

(***************************************************************************)
(* The analyzers, as far as the orchestrator reads their output.  They are *)
(* deterministic in the text, so a document's text decides its entities.   *)
(***************************************************************************)
\* ner_model.extract_entities(text)['entities']
ExtractEntities(text) ==
    IF text = "named"
    THEN << [text |-> "Acme Corp", label |-> "ORG", start |-> 0, end |-> 9],
            [text |-> "John Smith", label |-> "PERSON", start |-> 20, end |-> 30] >>
    ELSE <<>>

\* ner_model.extract_relationships(text): subject and object are token texts
ExtractRelationships(text) ==
    IF text = "named"
    THEN << [subject |-> "John", relation |-> "joined", object |-> "Acme"] >>
    ELSE <<>>

(***************************************************************************)
(* Redis (database/redis_cache.py).  A cached value is the JSON text of    *)
(* the result; here the text is the tuple of the result's fields in the    *)
(* order the orchestrator writes them.  Whether the server answers a call  *)
(* is the environment's choice at every call (up).                         *)
(***************************************************************************)
NoEntry == <<>>

\* json.dumps(value) in RedisCache.set
JsonDumps(v) == <<v.document_id, v.analyzed_at, v.status, v.entities, v.error>>

\* a decoder that loses the nested entity list
JsonLoadsLossy(s) ==
    [document_id |-> s[1], analyzed_at |-> s[2], status |-> s[3],
     entities |-> <<>>, error |-> s[5]]

\* json.loads(value) in RedisCache.get
JsonLoads(s) ==
    [document_id |-> s[1], analyzed_at |-> s[2], status |-> s[3],
     entities |-> s[4], error |-> s[5]]

\* the result record before any run produced one
NoResult ==
    [document_id |-> "", analyzed_at |-> 0, status |-> "none",
     entities |-> <<>>, error |-> ""]

\* a get without the is_connected test and the try/except around the client
RedisGetRaises(connected, up, entry) ==
    IF ~connected \/ ~up
    THEN [hit |-> FALSE, value |-> NoResult, caught |-> FALSE, raised |-> TRUE]
    ELSE IF entry = NoEntry
    THEN [hit |-> FALSE, value |-> NoResult, caught |-> FALSE, raised |-> FALSE]
    ELSE [hit |-> TRUE, value |-> JsonLoads(entry), caught |-> FALSE, raised |-> FALSE]

\* RedisCache.get: None (a miss) when not connected, when the client raises
\* (caught and logged) and when the key is absent or expired; it never raises
\* itself
RedisGet(connected, up, entry) ==
    IF ~connected
    THEN [hit |-> FALSE, value |-> NoResult, caught |-> FALSE, raised |-> FALSE]
    ELSE IF ~up
    THEN [hit |-> FALSE, value |-> NoResult, caught |-> TRUE, raised |-> FALSE]
    ELSE IF entry = NoEntry
    THEN [hit |-> FALSE, value |-> NoResult, caught |-> FALSE, raised |-> FALSE]
    ELSE [hit |-> TRUE, value |-> JsonLoads(entry), caught |-> FALSE, raised |-> FALSE]

\* a set without the try/except around the client
RedisSetRaises(connected, up, entry, value) ==
    IF ~connected THEN [entry |-> entry, ok |-> FALSE, caught |-> FALSE, raised |-> FALSE]
    ELSE IF ~up THEN [entry |-> entry, ok |-> FALSE, caught |-> FALSE, raised |-> TRUE]
    ELSE [entry |-> JsonDumps(value), ok |-> TRUE, caught |-> FALSE, raised |-> FALSE]

\* a set that keeps an entry that already exists (SET NX instead of SETEX)
RedisSetKeepsOld(connected, up, entry, value) ==
    IF ~connected THEN [entry |-> entry, ok |-> FALSE, caught |-> FALSE, raised |-> FALSE]
    ELSE IF ~up THEN [entry |-> entry, ok |-> FALSE, caught |-> TRUE, raised |-> FALSE]
    ELSE [entry |-> IF entry = NoEntry THEN JsonDumps(value) ELSE entry,
          ok |-> TRUE, caught |-> FALSE, raised |-> FALSE]

\* RedisCache.set: the new entry (setex overwrites), or the old one when not
\* connected or when the client raises (caught and logged); it never raises
\* itself
RedisSet(connected, up, entry, value) ==
    IF ~connected THEN [entry |-> entry, ok |-> FALSE, caught |-> FALSE, raised |-> FALSE]
    ELSE IF ~up THEN [entry |-> entry, ok |-> FALSE, caught |-> TRUE, raised |-> FALSE]
    ELSE [entry |-> JsonDumps(value), ok |-> TRUE, caught |-> FALSE, raised |-> FALSE]

\* redis_client.get_cached_analysis(doc_id, 'complete') in the current state
GetCachedAnalysis(d, up) == RedisGet(is_connected, up, cache[d])

(***************************************************************************)
(* The documents collection and the analyze trigger (routes).              *)
(***************************************************************************)
NoDocument ==
    [exists |-> FALSE, text_content |-> "", analysis_status |-> "absent", error |-> ""]

\* upload_document's doc_record
UploadedStatus == "pending"

\* the status the analyze trigger writes before it queues the task
TriggerStatus == "processing"

\* a save that writes the upload's status back
SavedStatusReset == "pending"

\* the status _save_analysis_results writes
SavedStatus == "completed"

\* the status run_analysis_task writes in its except branch
TaskFailedStatus == "failed"

\* mongodb.update_document(id, {'analysis_status': st, ...}): $set on the one
\* matching document, nothing when there is none
UpdateStatus(docs, d, st, err) ==
    IF docs[d].exists
    THEN [docs EXCEPT ![d].analysis_status = st,
                      ![d].error = IF err = "" THEN @ ELSE err]
    ELSE docs

\* A task: the arguments of run_analysis_task, where it stands (pc), the
\* results dict it builds and the result analyze_document returned; run is the
\* run's analyzed_at.  What the run did is kept beside it: whether it returned
\* the cached value (hit), what raised in it ("redis": the Redis client,
\* caught inside RedisCache) and the effects it had, in order (ops).
NoTask ==
    [document_id |-> "", text |-> "", force |-> FALSE, pc |-> "idle", run |-> 0,
     result |-> NoResult, results |-> NoResult,
     hit |-> FALSE, raised |-> {}, ops |-> <<>>]

NewTask(d, text, force, run) ==
    [NoTask EXCEPT !.document_id = d, !.text = text, !.force = force,
                   !.pc = "start", !.run = run]

InFlight(t) == t.pc \notin {"idle", "done"}

\* a new task takes the first slot that never held a task and, when there is
\* none, the first slot whose task is over
SlotOrder == [s \in Slots |-> IF s = "s1" THEN 1 ELSE 2]

SlotRank(t, s) ==
    IF t[s].pc = "idle" THEN SlotOrder[s] ELSE SlotOrder[s] + Cardinality(Slots)

\* POST /upload: a new document record
Upload(d) ==
    /\ ~documents[d].exists
    /\ documents' = [documents EXCEPT ![d] =
                        [exists |-> TRUE, text_content |-> TextContent[d],
                         analysis_status |-> UploadedStatus, error |-> ""]]
    /\ UNCHANGED <<entities, analysis, cache, is_connected, tasks, nruns, writer, graph>>
    /\ UNCHANGED <<requests, loop>>
    /\ UNCHANGED <<call, reply>>

\* POST /analyze: 404 without the document, 400 without text (neither changes
\* anything); otherwise the status is set and run_analysis_task is queued
Trigger(s, d, force) ==
    /\ nruns < MaxRuns
    /\ ~InFlight(tasks[s])
    /\ \A o \in Slots : ~InFlight(tasks[o]) => SlotRank(tasks, s) <= SlotRank(tasks, o)
    /\ documents[d].exists
    /\ documents[d].text_content # ""
    /\ documents' = UpdateStatus(documents, d, TriggerStatus, "")
    /\ nruns' = nruns + 1
    /\ tasks' = [tasks EXCEPT ![s] =
                    NewTask(d, documents[d].text_content, force, nruns + 1)]
    /\ UNCHANGED <<entities, analysis, cache, is_connected, writer, graph>>
    /\ UNCHANGED <<requests, loop>>
    /\ UNCHANGED <<call, reply>>

(***************************************************************************)
(* AnalysisEngine.analyze_document as run by run_analysis_task.            *)
(***************************************************************************)
\* the numbered analyzer invocations of analyze_document (1. NER ... 10. statistics)
Stages == 1..10

\* "5. Build knowledge graph"
GraphStage == 5

\* a results dict that starts as 'processing' and is never marked completed
CompletedResultsUnmarked(run, d, text) ==
    [document_id |-> d, analyzed_at |-> run, status |-> "processing",
     entities |-> ExtractEntities(text), error |-> ""]

\* the results dict once all ten stages have run
CompletedResults(run, d, text) ==
    [document_id |-> d, analyzed_at |-> run, status |-> "completed",
     entities |-> ExtractEntities(text), error |-> ""]

\* the dict the except branch of analyze_document returns
FailedResult(run, d) ==
    [document_id |-> d, analyzed_at |-> run, status |-> "failed",
     entities |-> <<>>, error |-> "error"]

\* analyze_document catches Exception around its whole body, so nothing it
\* awaits raises past it into run_analysis_task
AnalyzeEscapes == FALSE

\* run_analysis_task after analyze_document is over: the except branch writes
\* the failed status and the error, the normal branch writes nothing
TaskEnd(docs, d, escaped) ==
    IF escaped THEN UpdateStatus(docs, d, TaskFailedStatus, "error") ELSE docs

\* where analyze_document goes once the cache lookup is over: the except
\* branch had the lookup raised, the return on a hit, the analyzers otherwise
AfterCacheLookup(lookup) ==
    IF lookup.raised THEN "failed"
    ELSE IF lookup.hit THEN "done"
    ELSE "analyze"

\* an orchestrator that caches the results without saving them
AfterAnalyzersSkipSave(results) == "cache_analysis"

\* _save_analysis_results: entity rows are inserted only for a non-empty list
AfterAnalyzers(results) ==
    IF results.entities # <<>> THEN "insert_entities" ELSE "insert_analysis"

\* _save_analysis_results catches what the store raises and logs it, so
\* analyze_document goes on to cache_analysis
AfterSaveError == "cache_analysis"

\* entities_to_save
EntityRows(results) ==
    [k \in DOMAIN results.entities |->
        [document_id |-> results.document_id,
         entity_text |-> results.entities[k].text,
         entity_type |-> results.entities[k].label,
         start_pos   |-> results.entities[k].start,
         end_pos     |-> results.entities[k].end,
         created_at  |-> results.analyzed_at]]

\* analysis_doc
AnalysisDoc(results) ==
    [document_id |-> results.document_id, analysis_type |-> "complete",
     analyzed_at |-> results.analyzed_at]

\* lines 69-72, kg_builder.build_graph(entities, relationships) on what the
\* analyzers extract from a text: whether it raises inside, and the graph it
\* leaves in the builder when it does not
TextGraph ==
    [text \in Range(TextContent) |->
        [raises |-> BuildRaises(ExtractEntities(text), ExtractRelationships(text)),
         graph  |-> BuiltGraph(ExtractEntities(text), ExtractRelationships(text))]]

\* lines 31-36: the cache lookup of a run without force
CacheLookup(s, up) ==
    /\ tasks[s].pc = "start"
    /\ ~tasks[s].force
    /\ LET t      == tasks[s]
           lookup == GetCachedAnalysis(t.document_id, up)
           next   == AfterCacheLookup(lookup)
       IN  /\ tasks' = [tasks EXCEPT ![s] =
                          IF next = "done"
                          THEN [t EXCEPT !.pc = "done", !.hit = TRUE,
                                         !.result = lookup.value]
                          ELSE IF next = "failed"
                          THEN [t EXCEPT !.pc = "done",
                                         !.result = FailedResult(t.run, t.document_id),
                                         !.raised = @ \cup {"cache"}]
                          ELSE [t EXCEPT !.pc = next,
                                         !.raised = IF lookup.caught
                                                    THEN @ \cup {"redis"} ELSE @]]
           /\ documents' = IF next = "analyze" THEN documents
                           ELSE TaskEnd(documents, t.document_id, AnalyzeEscapes)
    /\ UNCHANGED <<entities, analysis, cache, is_connected, nruns, writer, graph>>
    /\ UNCHANGED <<requests, loop>>
    /\ UNCHANGED <<call, reply>>

\* lines 38-100: the ten analyzer stages, which follow the lookup or, under
\* force, start the run; failAt is the stage that raises (0: none)
RunAnalyzers(s, failAt) ==
    /\ \/ tasks[s].pc = "analyze"
       \/ tasks[s].pc = "start" /\ tasks[s].force
    /\ LET t       == tasks[s]
           results == CompletedResults(t.run, t.document_id, t.text)
       IN  /\ graph' = IF failAt = 0 \/ failAt > GraphStage
                       THEN IF TextGraph[t.text].raises THEN graph
                            ELSE TextGraph[t.text].graph
                       ELSE graph
           /\ tasks' = [tasks EXCEPT ![s] =
                          IF failAt = 0
                          THEN [t EXCEPT !.pc = AfterAnalyzers(results),
                                         !.results = results,
                                         !.ops = Append(@, "analyzers")]
                          ELSE [t EXCEPT !.pc = "done",
                                         !.result = FailedResult(t.run, t.document_id),
                                         !.raised = @ \cup {"analyzer"},
                                         !.ops = Append(@, "analyzers")]]
           /\ documents' = IF failAt = 0 THEN documents
                           ELSE TaskEnd(documents, t.document_id, AnalyzeEscapes)
    /\ UNCHANGED <<entities, analysis, cache, is_connected, nruns, writer>>
    /\ UNCHANGED <<requests, loop>>
    /\ UNCHANGED <<call, reply>>

\* line 186: mongodb.insert_entities; ok = FALSE is the store raising
InsertEntities(s, ok) ==
    /\ tasks[s].pc = "insert_entities"
    /\ LET t == tasks[s]
       IN  /\ entities' = IF ok THEN entities \o EntityRows(t.results) ELSE entities
           /\ tasks' = [tasks EXCEPT ![s] =
                          IF ok
                          THEN [t EXCEPT !.pc = "insert_analysis",
                                         !.ops = Append(@, "entities")]
                          ELSE [t EXCEPT !.pc = AfterSaveError,
                                         !.raised = @ \cup {"store"}]]
    /\ UNCHANGED <<documents, analysis, cache, is_connected, nruns, writer, graph>>
    /\ UNCHANGED <<requests, loop>>
    /\ UNCHANGED <<call, reply>>

\* line 198: mongodb.insert_analysis
InsertAnalysis(s, ok) ==
    /\ tasks[s].pc = "insert_analysis"
    /\ LET t == tasks[s]
       IN  /\ analysis' = IF ok THEN Append(analysis, AnalysisDoc(t.results))
                          ELSE analysis
           /\ tasks' = [tasks EXCEPT ![s] =
                          IF ok
                          THEN [t EXCEPT !.pc = "update_document",
                                         !.ops = Append(@, "analysis")]
                          ELSE [t EXCEPT !.pc = AfterSaveError,
                                         !.raised = @ \cup {"store"}]]
    /\ UNCHANGED <<documents, entities, cache, is_connected, nruns, writer, graph>>
    /\ UNCHANGED <<requests, loop>>
    /\ UNCHANGED <<call, reply>>

\* lines 201-204: mongodb.update_document with the completed status
UpdateDocument(s, ok) ==
    /\ tasks[s].pc = "update_document"
    /\ LET t == tasks[s]
       IN  /\ documents' = IF ok
                           THEN UpdateStatus(documents, t.document_id, SavedStatus, "")
                           ELSE documents
           /\ tasks' = [tasks EXCEPT ![s] =
                          IF ok
                          THEN [t EXCEPT !.pc = "cache_analysis",
                                         !.ops = Append(@, "status")]
                          ELSE [t EXCEPT !.pc = AfterSaveError,
                                         !.raised = @ \cup {"store"}]]
    /\ UNCHANGED <<entities, analysis, cache, is_connected, nruns, writer, graph>>
    /\ UNCHANGED <<requests, loop>>
    /\ UNCHANGED <<call, reply>>

\* lines 106-119: redis_client.cache_analysis, then the return; an exception
\* from the cache call would land in the except branch like any other
CacheAnalysis(s, up) ==
    /\ tasks[s].pc = "cache_analysis"
    /\ LET t   == tasks[s]
           out == RedisSet(is_connected, up, cache[t.document_id], t.results)
       IN  /\ cache' = [cache EXCEPT ![t.document_id] = out.entry]
           /\ tasks' = [tasks EXCEPT ![s] =
                          [t EXCEPT !.pc = "done",
                                    !.result = IF out.raised
                                               THEN FailedResult(t.run, t.document_id)
                                               ELSE t.results,
                                    !.raised = IF out.raised THEN @ \cup {"cache"}
                                               ELSE IF out.caught THEN @ \cup {"redis"}
                                               ELSE @,
                                    !.ops = IF out.ok THEN Append(@, "cache") ELSE @]]
           /\ writer' = IF out.ok THEN [writer EXCEPT ![t.document_id] = t.run]
                         ELSE writer
           /\ documents' = TaskEnd(documents, t.document_id, AnalyzeEscapes)
    /\ UNCHANGED <<entities, analysis, is_connected, nruns, graph>>
    /\ UNCHANGED <<requests, loop>>
    /\ UNCHANGED <<call, reply>>

\* an entry outlives its expiry (setex with 7200 s)
Expire(d) ==
    /\ cache[d] # NoEntry
    /\ cache' = [cache EXCEPT ![d] = NoEntry]
    /\ writer' = [writer EXCEPT ![d] = 0]
    /\ UNCHANGED <<documents, entities, analysis, is_connected, tasks, nruns, graph>>
    /\ UNCHANGED <<requests, loop>>
    /\ UNCHANGED <<call, reply>>

(***************************************************************************)
(* AnalysisEngine.get_insights, a read-only handler: its answer in the     *)
(* current state.  storeOk = FALSE is mongodb.get_analysis raising.        *)
(***************************************************************************)
\* mongodb.get_analysis(document_id): the document's records in natural order
GetAnalysis(d) ==
    LET RECURSIVE Pick(_)
        Pick(k) == IF k > Len(analysis) THEN <<>>
                   ELSE IF analysis[k].document_id = d
                        THEN <<analysis[k]>> \o Pick(k + 1)
                        ELSE Pick(k + 1)
    IN  Pick(1)

\* a get_insights that asks the store first and the cache only without a record
GetInsightsStoreFirst(d, up, storeOk) ==
    LET cached == GetCachedAnalysis(d, up)
        db_analysis == GetAnalysis(d)
    IN  IF ~storeOk
        THEN [error |-> "error", source |-> "none", analyzed_at |-> 0]
        ELSE IF db_analysis # <<>>
        THEN [error |-> "", source |-> "store",
              analyzed_at |-> db_analysis[1].analyzed_at]
        ELSE IF cached.hit
        THEN [error |-> "", source |-> "cache", analyzed_at |-> cached.value.analyzed_at]
        ELSE [error |-> "No analysis found", source |-> "none", analyzed_at |-> 0]

GetInsights(d, up, storeOk) ==
    LET cached == GetCachedAnalysis(d, up)
        db_analysis == GetAnalysis(d)
    IN  IF cached.raised
        THEN [error |-> "error", source |-> "none", analyzed_at |-> 0]
        ELSE IF cached.hit
        THEN [error |-> "", source |-> "cache", analyzed_at |-> cached.value.analyzed_at]
        ELSE IF ~storeOk
        THEN [error |-> "error", source |-> "none", analyzed_at |-> 0]
        ELSE IF db_analysis = <<>>
        THEN [error |-> "No analysis found", source |-> "none", analyzed_at |-> 0]
        ELSE [error |-> "", source |-> "store",
              analyzed_at |-> db_analysis[1].analyzed_at]

\* mongodb.get_entities_by_document(document_id), the answer of GET
\* /entities/{document_id}: every stored row of the document
GetEntitiesByDocument(d) ==
    LET RECURSIVE Pick(_)
        Pick(k) == IF k > Len(entities) THEN <<>>
                   ELSE IF entities[k].document_id = d
                        THEN <<entities[k]>> \o Pick(k + 1)
                        ELSE Pick(k + 1)
    IN  Pick(1)

\* what _generate_summary, _extract_key_findings and
\* _generate_recommendations draw from analysis.get('entities', {}): the
\* entity count of the summary and the entity types behind the
\* recommendations; a record without the key yields none of them
EntityInsights(value) ==
    IF "entities" \in DOMAIN value
    THEN [total_entities |-> Len(value.entities),
          entity_types |-> {value.entities[k].label : k \in DOMAIN value.entities}]
    ELSE [total_entities |-> 0, entity_types |-> {}]

\* no insights: get_insights returned an error
NoInsights == [total_entities |-> -1, entity_types |-> {}]

\* the entity part of the insights that get_insights generates, from the
\* cached result or from db_analysis[0]
InsightsContent(d, up, storeOk) ==
    LET cached == GetCachedAnalysis(d, up)
        db_analysis == GetAnalysis(d)
    IN  IF cached.raised THEN NoInsights
        ELSE IF cached.hit THEN EntityInsights(cached.value)
        ELSE IF ~storeOk \/ db_analysis = <<>> THEN NoInsights
        ELSE EntityInsights(db_analysis[1])

\* GET /analysis/{document_id} (routes/analysis.py): the cached result, or
\* analysis_list[0] of the store; 404 without a record, 500 on any exception
GetAnalysisRoute(d, up, storeOk) ==
    LET cached == GetCachedAnalysis(d, up)
        analysis_list == GetAnalysis(d)
    IN  IF cached.raised
        THEN [status |-> "error", cached |-> FALSE, analyzed_at |-> 0]
        ELSE IF cached.hit
        THEN [status |-> "ok", cached |-> TRUE, analyzed_at |-> cached.value.analyzed_at]
        ELSE IF ~storeOk
        THEN [status |-> "error", cached |-> FALSE, analyzed_at |-> 0]
        ELSE IF analysis_list = <<>>
        THEN [status |-> "not_found", cached |-> FALSE, analyzed_at |-> 0]
        ELSE [status |-> "ok", cached |-> FALSE, analyzed_at |-> analysis_list[1].analyzed_at]

\* line 219, "if not analysis": get_insights calls mongodb.get_analysis only
\* when the cache lookup returned nothing
InsightsReadsStore(d, up) ==
    LET cached == GetCachedAnalysis(d, up)
    IN  ~cached.raised /\ ~cached.hit

\* the texts of the entities of a cached analysis
EntityTexts(value) == {value.entities[k].text : k \in DOMAIN value.entities}

\* a compare_documents that fetches from the store what the cache lacks
CompareDocumentsFallsBack(d1, d2, up1, up2) ==
    LET analysis1 == GetCachedAnalysis(d1, up1)
        analysis2 == GetCachedAnalysis(d2, up2)
        has1 == analysis1.hit \/ GetAnalysis(d1) # <<>>
        has2 == analysis2.hit \/ GetAnalysis(d2) # <<>>
    IN  IF ~has1 \/ ~has2
        THEN [error |-> "One or both documents not analyzed", store_read |-> TRUE,
              shared_entities |-> {}, unique_entities_1 |-> {}, unique_entities_2 |-> {}]
        ELSE [error |-> "", store_read |-> ~analysis1.hit \/ ~analysis2.hit,
              shared_entities |-> {}, unique_entities_1 |-> {}, unique_entities_2 |-> {}]

\* compare_documents: both analyses come from the cache and from nowhere
\* else (the function has no mongodb call); the category and sentiment notes
\* are built from result fields this model's records do not carry
CompareDocuments(d1, d2, up1, up2) ==
    LET analysis1 == GetCachedAnalysis(d1, up1)
        analysis2 == GetCachedAnalysis(d2, up2)
        entities1 == EntityTexts(analysis1.value)
        entities2 == EntityTexts(analysis2.value)
    IN  IF analysis1.raised \/ analysis2.raised
        THEN [error |-> "error", store_read |-> FALSE,
              shared_entities |-> {}, unique_entities_1 |-> {}, unique_entities_2 |-> {}]
        ELSE IF ~analysis1.hit \/ ~analysis2.hit
        THEN [error |-> "One or both documents not analyzed", store_read |-> FALSE,
              shared_entities |-> {}, unique_entities_1 |-> {}, unique_entities_2 |-> {}]
        ELSE [error |-> "", store_read |-> FALSE,
              shared_entities |-> entities1 \cap entities2,
              unique_entities_1 |-> entities1 \ entities2,
              unique_entities_2 |-> entities2 \ entities1]

(***************************************************************************)
(* The graph-query routes (routes/insights.py) on the shared builder.      *)
(* A request is one run of get_entity_network.  It gives up the event loop *)
(* at "await mongodb.get_analysis"; what it does after that await answers  *)
(* runs while it holds the loop.                                           *)
(***************************************************************************)
Reqs == {"r1", "r2"}

\* what mongodb.get_analysis(document_id, "complete") holds for the document:
\* nothing, the record _save_analysis_results writes (no knowledge_graph
\* field), a record that carries the graph fields, a record whose entity list
\* has an entry without 'text'
StoredKinds == {"none", "engine", "graph", "malformed"}

\* the query parameters of the route
QueryEntities == {"Acme", "Alice"}
Depths == {1, 2}

\* analysis[0].get('entities', {}).get('entities', [])
RecordEntities(d, kind) ==
    IF kind = "graph"
    THEN IF d = "d1"
         THEN << [text |-> "Alice", label |-> "PERSON"],
                 [text |-> "Acme", label |-> "ORG"],
                 [text |-> "Paris", label |-> "GPE"] >>
         ELSE << [text |-> "Bob", label |-> "PERSON"],
                 [text |-> "Acme", label |-> "ORG"],
                 [text |-> "Berlin", label |-> "GPE"] >>
    ELSE IF kind = "malformed"
    THEN << [text |-> Missing, label |-> "ORG"] >>
    ELSE <<>>

\* analysis[0].get('relationships', [])
RecordRelationships(d, kind) ==
    IF kind = "graph" /\ d = "d2"
    THEN << [subject |-> "Acme", relation |-> "based_in", object |-> "Berlin"] >>
    ELSE <<>>

NoRequest ==
    [document_id |-> "", kind |-> "none", entity |-> "", depth |-> 0,
     pc |-> "idle", http |-> 0, answer |-> {}, overlap |-> FALSE]

InProgress(q) == q.pc \notin {"idle", "done"}

\* a build_graph that awaits I/O, and so gives up the event loop
BuildGraphYields == TRUE

\* build_graph awaits only _create_implicit_connections and _graph_to_dict,
\* which await nothing: the event loop is not given up inside it nor between
\* it and the query that follows
BuildGraphSuspends == FALSE

\* GET /entity-network/{document_id}: the handler starts and awaits the store
Arrive(r, d, kind, entity, depth) ==
    /\ requests[r].pc = "idle"
    /\ requests' = [q \in Reqs |->
                      IF q = r
                      THEN [NoRequest EXCEPT
                               !.document_id = d, !.kind = kind, !.entity = entity,
                               !.depth = depth, !.pc = "get_analysis",
                               !.overlap = \E o \in Reqs \ {r} : InProgress(requests[o])]
                      ELSE IF InProgress(requests[q])
                      THEN [requests[q] EXCEPT !.overlap = TRUE]
                      ELSE requests[q]]
    /\ UNCHANGED <<documents, entities, analysis, cache, is_connected, tasks, nruns, writer>>
    /\ UNCHANGED <<graph, loop>>
    /\ UNCHANGED <<call, reply>>

\* lines 72-85: the store has answered; 404 without a record or without its
\* knowledge_graph field, otherwise the inputs of the build are read
Resume(r) ==
    /\ requests[r].pc = "get_analysis"
    /\ loop = "free"
    /\ IF requests[r].kind \in {"none", "engine"}
       THEN /\ requests' = [requests EXCEPT ![r].pc = "done", ![r].http = 404]
            /\ loop' = "free"
       ELSE /\ requests' = [requests EXCEPT ![r].pc = "build"]
            /\ loop' = r
    /\ UNCHANGED <<documents, entities, analysis, cache, is_connected, tasks, nruns, writer>>
    /\ UNCHANGED graph
    /\ UNCHANGED <<call, reply>>

\* line 86: await kg_builder.build_graph(entities_data, relationships)
Build(r) ==
    /\ requests[r].pc = "build"
    /\ loop = r
    /\ graph' = GraphAfterBuild(graph,
                    RecordEntities(requests[r].document_id, requests[r].kind),
                    RecordRelationships(requests[r].document_id, requests[r].kind))
    /\ requests' = [requests EXCEPT ![r].pc = "query"]
    /\ loop' = IF BuildGraphSuspends THEN "free" ELSE r
    /\ UNCHANGED <<documents, entities, analysis, cache, is_connected, tasks, nruns, writer>>
    /\ UNCHANGED <<call, reply>>

\* lines 89-99: await kg_builder.get_entity_neighbors(entity, depth) and the response
Query(r) ==
    /\ requests[r].pc = "query"
    /\ loop \in {r, "free"}
    /\ requests' = [requests EXCEPT
                      ![r].pc = "done", ![r].http = 200,
                      ![r].answer = EntityNeighbors(graph, requests[r].entity,
                                                    requests[r].depth)]
    /\ loop' = "free"
    /\ UNCHANGED <<documents, entities, analysis, cache, is_connected, tasks, nruns, writer>>
    /\ UNCHANGED graph
    /\ UNCHANGED <<call, reply>>

\* stage 5 of a background analysis run of document d, between two awaits of
\* the run: the same builder rebuilds its graph from that document
BackgroundBuild(d) ==
    /\ loop = "free"
    /\ graph' = GraphAfterBuild(graph, ExtractEntities(TextContent[d]),
                                ExtractRelationships(TextContent[d]))
    /\ UNCHANGED <<documents, entities, analysis, cache, is_connected, tasks, nruns, writer>>
    /\ UNCHANGED <<requests, loop>>
    /\ UNCHANGED <<call, reply>>

(***************************************************************************)
(* The specifications: the analysis pipeline (Spec, FairSpec) and the      *)
(* graph-query requests (SpecKG).                                          *)
(***************************************************************************)
\* no call of a read handler or a graph/timeline function is in progress
NoCall == [op |-> "none"]

NoReply == [op |-> "none"]

vars == <<documents, entities, analysis, cache, is_connected, tasks, nruns, writer,
          graph, requests, loop, call, reply>>

Init ==
    /\ documents = [d \in Docs |-> NoDocument]
    /\ entities = <<>>
    /\ analysis = <<>>
    /\ cache = [d \in Docs |-> NoEntry]
    /\ is_connected \in BOOLEAN
    /\ tasks = [s \in Slots |-> NoTask]
    /\ nruns = 0
    /\ writer = [d \in Docs |-> 0]
    /\ graph = NoGraph
    /\ requests = [r \in Reqs |-> NoRequest]
    /\ loop = "free"
    /\ call = NoCall
    /\ reply = NoReply

TaskStep(s) ==
    \/ \E up \in BOOLEAN : CacheLookup(s, up)
    \/ \E failAt \in {0} \cup Stages : RunAnalyzers(s, failAt)
    \/ \E ok \in BOOLEAN : InsertEntities(s, ok)
    \/ \E ok \in BOOLEAN : InsertAnalysis(s, ok)
    \/ \E ok \in BOOLEAN : UpdateDocument(s, ok)
    \/ \E up \in BOOLEAN : CacheAnalysis(s, up)

Next ==
    \/ \E d \in Docs : Upload(d)
    \/ \E s \in Slots, d \in Docs, force \in BOOLEAN : Trigger(s, d, force)
    \/ \E s \in Slots : TaskStep(s)
    \/ \E d \in Docs : Expire(d)

Spec == Init /\ [][Next]_vars

\* a started background task is run to its end by the event loop
FairSpec == Spec /\ \A s \in Slots : WF_vars(TaskStep(s))

NextKG ==
    \/ \E r \in Reqs, d \in Docs, kind \in StoredKinds,
          entity \in QueryEntities, depth \in Depths : Arrive(r, d, kind, entity, depth)
    \/ \E r \in Reqs : Resume(r)
    \/ \E r \in Reqs : Build(r)
    \/ \E r \in Reqs : Query(r)
    \/ \E d \in Docs : BackgroundBuild(d)

SpecKG == Init /\ [][NextKG]_vars

(***************************************************************************)
(* The read handlers get_insights and compare_documents, called on a       *)
(* server started over a store and a cache that earlier runs filled: the   *)
(* tasks and the builder's graph are new, Mongo and Redis keep what the    *)
(* runs wrote.  Run r analysed the document ran[r]; the runs of saved got  *)
(* their records into the store (in the order of the runs), cached[d] is   *)
(* the run whose result the cache holds for d (0: no entry, the entry      *)
(* expired or was never written).                                          *)
(***************************************************************************)
Runs == 1..MaxRuns

RunResult(r, d) == CompletedResults(r, d, TextContent[d])

RECURSIVE SavedRecords(_, _, _)
SavedRecords(ran, saved, r) ==
    IF r > MaxRuns THEN <<>>
    ELSE (IF r \in saved THEN <<AnalysisDoc(RunResult(r, ran[r]))>> ELSE <<>>)
         \o SavedRecords(ran, saved, r + 1)

RECURSIVE SavedRows(_, _, _)
SavedRows(ran, saved, r) ==
    IF r > MaxRuns THEN <<>>
    ELSE (IF r \in saved THEN EntityRows(RunResult(r, ran[r])) ELSE <<>>)
         \o SavedRows(ran, saved, r + 1)

InitReads ==
    \E ran \in [Runs -> Docs], saved \in SUBSET Runs, cached \in [Docs -> 0..MaxRuns] :
        /\ \A d \in Docs : cached[d] # 0 => ran[cached[d]] = d
        /\ is_connected \in BOOLEAN
        /\ ~is_connected => \A d \in Docs : cached[d] = 0
        /\ documents = [d \in Docs |->
                           IF d \notin Range(ran) THEN NoDocument
                           ELSE [exists |-> TRUE, text_content |-> TextContent[d],
                                 analysis_status |->
                                     IF \E r \in saved : ran[r] = d
                                     THEN SavedStatus ELSE TriggerStatus,
                                 error |-> ""]]
        /\ entities = SavedRows(ran, saved, 1)
        /\ analysis = SavedRecords(ran, saved, 1)
        /\ cache = [d \in Docs |-> IF cached[d] = 0 THEN NoEntry
                                   ELSE JsonDumps(RunResult(cached[d], d))]
        /\ writer = cached
        /\ tasks = [s \in Slots |-> NoTask]
        /\ nruns = MaxRuns
        /\ graph = NoGraph
        /\ requests = [r \in Reqs |-> NoRequest]
        /\ loop = "free"
        /\ call = NoCall
        /\ reply = NoReply

\* GET /insights/{document_id}: one call of get_insights; whether Redis and
\* Mongo answer it is the environment's choice
CallGetInsights(d, up, storeOk) ==
    /\ call' = [op |-> "get_insights", document_id |-> d, up |-> up, storeOk |-> storeOk]
    /\ reply' = [op |-> "get_insights", result |-> GetInsights(d, up, storeOk),
                 store_read |-> InsightsReadsStore(d, up),
                 insights |-> InsightsContent(d, up, storeOk)]
    /\ UNCHANGED <<documents, entities, analysis, cache, is_connected, tasks, nruns,
                   writer, graph, requests, loop>>

\* GET /analysis/{document_id}: one call of the route
CallGetAnalysis(d, up, storeOk) ==
    /\ call' = [op |-> "get_analysis", document_id |-> d, up |-> up, storeOk |-> storeOk]
    /\ reply' = [op |-> "get_analysis", result |-> GetAnalysisRoute(d, up, storeOk)]
    /\ UNCHANGED <<documents, entities, analysis, cache, is_connected, tasks, nruns,
                   writer, graph, requests, loop>>

\* POST /compare: one call of compare_documents
CallCompareDocuments(d1, d2, up1, up2) ==
    /\ call' = [op |-> "compare_documents", doc_id1 |-> d1, doc_id2 |-> d2,
                up1 |-> up1, up2 |-> up2]
    /\ reply' = [op |-> "compare_documents", result |-> CompareDocuments(d1, d2, up1, up2)]
    /\ UNCHANGED <<documents, entities, analysis, cache, is_connected, tasks, nruns,
                   writer, graph, requests, loop>>

NextReads ==
    \/ \E d \in Docs, up \in BOOLEAN, storeOk \in BOOLEAN : CallGetInsights(d, up, storeOk)
    \/ \E d \in Docs, up \in BOOLEAN, storeOk \in BOOLEAN : CallGetAnalysis(d, up, storeOk)
    \/ \E d1 \in Docs, d2 \in Docs, up1 \in BOOLEAN, up2 \in BOOLEAN :
          CallCompareDocuments(d1, d2, up1, up2)

SpecReads == InitReads /\ [][NextReads]_vars

(***************************************************************************)
(* The knowledge-graph builder's functions, applied to bounded families of *)
(* entity and relationship lists.  An entity list has np PERSON, no ORG    *)
(* and ng GPE entities (more than the slice limits of the fallback rule    *)
(* allow for), and optionally one more entity that repeats an earlier text *)
(* under the same or under another label.  The inputs of the build are     *)
(* kept in call for the whole behaviour: the build and then one query on   *)
(* the graph the builder holds, which is no graph when the build raised.   *)
(***************************************************************************)
MaxPersons == 6
MaxOrgs == 6
MaxPlaces == 4

PersonNames == <<"P1", "P2", "P3", "P4", "P5", "P6", "P7", "P8">>
OrgNames    == <<"O1", "O2", "O3", "O4", "O5", "O6", "O7", "O8">>
PlaceNames  == <<"G1", "G2", "G3", "G4", "G5", "G6", "G7", "G8">>

Labelled(names, label, n) == [k \in 1..n |-> [text |-> names[k], label |-> label]]

\* how the list ends: nothing more, the first entity's text again under its
\* own label, the first person's text as an ORG ("dual"), an entity of a
\* fourth label, an entity without a text field, or one without a label
\* field
EntityEndings == {"plain", "repeat", "dual", "other", "malformed", "nolabel"}

EntityList(np, no, ng, ending) ==
    LET base == Labelled(PersonNames, "PERSON", np) \o Labelled(OrgNames, "ORG", no)
                \o Labelled(PlaceNames, "GPE", ng)
    IN  IF ending = "repeat" /\ base # <<>> THEN <<base[1]>> \o base
        ELSE IF ending = "dual" /\ np > 0
        THEN Append(base, [text |-> PersonNames[1], label |-> "ORG"])
        ELSE IF ending = "other" THEN Append(base, [text |-> "Monday", label |-> "DATE"])
        ELSE IF ending = "malformed" THEN Append(base, [text |-> Missing, label |-> "ORG"])
        ELSE IF ending = "nolabel" THEN Append(base, [text |-> "Nemo", label |-> Missing])
        ELSE base

\* the relationship lists: none; only relationships with an endpoint that
\* is no entity text; valid ones mixed with such; one between every ordered
\* pair of the first CliqueSize distinct texts (self pairs included when
\* loops is set); one without a subject field; one without an object field
RelationKinds == {"none", "unknown", "mixed", "clique", "loops", "malformed", "noobject"}

CliqueSize == 6

RelationshipList(ents, kind) ==
    LET texts  == Take(NodeOrder(ents), CliqueSize)
        pairs  == Cross(texts, texts)
        stray  == [subject |-> "Zed", relation |-> "knows", object |-> "O1"]
        stray2 == [subject |-> "P1", relation |-> "knows", object |-> "Zed"]
    IN  IF kind = "none" THEN <<>>
        ELSE IF kind = "unknown" THEN <<stray, stray2>>
        ELSE IF kind = "mixed"
        THEN <<stray, [subject |-> "P1", relation |-> "works_at", object |-> "O1"],
               [subject |-> "O1", relation |-> Missing, object |-> "G1"],
               [subject |-> "P1", relation |-> "left", object |-> "O1"], stray2>>
        ELSE IF kind = "malformed"
        THEN <<[subject |-> Missing, relation |-> "knows", object |-> "O1"]>>
        ELSE IF kind = "noobject"
        THEN <<[subject |-> "P1", relation |-> "knows", object |-> Missing]>>
        ELSE LET keep == {k \in DOMAIN pairs : kind = "loops" \/ pairs[k][1] # pairs[k][2]}
                 RECURSIVE Pick(_)
                 Pick(k) == IF k > Len(pairs) THEN <<>>
                            ELSE IF k \in keep
                                 THEN <<[subject |-> pairs[k][1], relation |-> "linked",
                                         object |-> pairs[k][2]]>> \o Pick(k + 1)
                                 ELSE Pick(k + 1)
             IN  Pick(1)

\* the arguments of the graph queries: entity texts and a text that is none
QueryNodes == {"P1", "O1", "G1", "Zed"}

\* the endings and relationship kinds that are put together
Shapes ==
    ({"plain", "repeat", "dual", "other", "malformed", "nolabel"} \X {"none"})
    \cup ({"plain", "dual"} \X {"unknown"})
    \cup ({"plain", "repeat", "malformed"} \X {"mixed"})
    \cup ({"plain", "other"} \X {"clique"})
    \cup ({"plain", "dual"} \X {"loops"})
    \cup ({"plain"} \X {"malformed", "noobject"})
MaxDepth == 3

InitBuild ==
    \E np \in 0..MaxPersons, no \in 0..MaxOrgs, ng \in 0..MaxPlaces, shape \in Shapes :
        /\ shape[1] \in EntityEndings /\ shape[2] \in RelationKinds
        \* a list with a record that lacks a field has at most one entity of
        \* each label beside it
        /\ (shape[1] \in {"malformed", "nolabel"} \/ shape[2] \in {"malformed", "noobject"})
              => (np <= 1 /\ no <= 1 /\ ng <= 1)
        \* the lists that come with a relationship between every pair have at
        \* most one place
        /\ shape[2] \in {"clique", "loops"} => ng <= 1
        /\ call = [op |-> "none",
                   entities |-> EntityList(np, no, ng, shape[1]),
                   relationships |->
                       RelationshipList(EntityList(np, no, ng, shape[1]), shape[2]),
                   entity |-> "", depth |-> 0, source |-> "", target |-> "",
                   yieldsSelf |-> FALSE]
        /\ reply = NoReply
        /\ documents = [d \in Docs |-> NoDocument]
        /\ entities = <<>>
        /\ analysis = <<>>
        /\ cache = [d \in Docs |-> NoEntry]
        /\ is_connected = TRUE
        /\ tasks = [s \in Slots |-> NoTask]
        /\ nruns = 0
        /\ writer = [d \in Docs |-> 0]
        /\ graph = NoGraph
        /\ requests = [r \in Reqs |-> NoRequest]
        /\ loop = "free"

\* kg_builder.build_graph(entities, relationships)
CallBuildGraph ==
    /\ call.op = "none"
    /\ call' = [call EXCEPT !.op = "build_graph", !.entity = "", !.depth = 0,
                            !.source = "", !.target = "", !.yieldsSelf = FALSE]
    /\ graph' = GraphAfterBuild(graph, call.entities, call.relationships)
    /\ reply' = [op |-> "build_graph",
                 result |-> GraphData(call.entities, call.relationships)]
    /\ UNCHANGED <<documents, entities, analysis, cache, is_connected, tasks, nruns,
                   writer, requests, loop>>

\* kg_builder.get_entity_neighbors(entity, depth)
CallGetEntityNeighbors(entity, depth) ==
    LET neighbors == EntityNeighbors(graph, entity, depth)
    IN  /\ call.op = "build_graph"
        /\ call' = [call EXCEPT !.op = "get_entity_neighbors",
                                !.entity = entity, !.depth = depth,
                                !.source = "", !.target = "", !.yieldsSelf = FALSE]
        /\ reply' = [op |-> "get_entity_neighbors", neighbors |-> neighbors,
                     count |-> Cardinality(neighbors)]
        /\ UNCHANGED <<documents, entities, analysis, cache, is_connected, tasks, nruns,
                       writer, graph, requests, loop>>

\* kg_builder.find_paths(source, target); which release of the graph library
\* is installed shows only for source = target
CallFindPaths(source, target, yieldsSelf) ==
    /\ call.op = "build_graph"
    /\ yieldsSelf => source = target
    /\ call' = [call EXCEPT !.op = "find_paths", !.source = source, !.target = target,
                            !.yieldsSelf = yieldsSelf, !.entity = "", !.depth = 0]
    /\ reply' = [op |-> "find_paths", paths |-> FindPaths(graph, source, target, yieldsSelf)]
    /\ UNCHANGED <<documents, entities, analysis, cache, is_connected, tasks, nruns,
                   writer, graph, requests, loop>>

NextBuild ==
    \/ CallBuildGraph
    \/ \E entity \in QueryNodes, depth \in 1..MaxDepth : CallGetEntityNeighbors(entity, depth)
    \/ \E source \in QueryNodes, target \in QueryNodes, yieldsSelf \in BOOLEAN :
          CallFindPaths(source, target, yieldsSelf)

SpecBuild == InitBuild /\ [][NextBuild]_vars

(***************************************************************************)
(* _build_timeline (services/analysis_engine.py), applied to bounded       *)
(* families of date and entity lists.                                      *)
(***************************************************************************)
\* "if abs(e['start'] - date_start) < 100" and "nearby_entities[:5]"
Window == 100
RelatedLimit == 5

Abs(x) == IF x < 0 THEN 0 - x ELSE x

\* a window that takes in the distance of exactly 100
NearbyEntitiesInclusive(date_start, ents) ==
    LET RECURSIVE Pick(_)
        Pick(k) == IF k > Len(ents) THEN <<>>
                   ELSE IF Abs(ents[k].start - date_start) <= Window
                        THEN <<ents[k]>> \o Pick(k + 1)
                        ELSE Pick(k + 1)
    IN  Pick(1)

\* nearby_entities: the entities within the window, in the order of the list
NearbyEntities(date_start, ents) ==
    LET RECURSIVE Pick(_)
        Pick(k) == IF k > Len(ents) THEN <<>>
                   ELSE IF Abs(ents[k].start - date_start) < Window
                        THEN <<ents[k]>> \o Pick(k + 1)
                        ELSE Pick(k + 1)
    IN  Pick(1)

\* the entry appended for one date
TimelineEntry(date_item, ents) ==
    LET nearby == Take(NearbyEntities(date_item.start, ents), RelatedLimit)
    IN  [date |-> date_item.text,
         position |-> date_item.start,
         related_entities |-> [k \in DOMAIN nearby |-> nearby[k].text],
         context |-> "event"]

\* a timeline left in the order of the dates
SortNot(timeline) == timeline

\* timeline.sort(key=position): list.sort is stable, entries of equal
\* position keep their order
RECURSIVE SortByPosition(_)
SortByPosition(timeline) ==
    IF timeline = <<>> THEN <<>>
    ELSE LET sorted == SortByPosition(SubSeq(timeline, 1, Len(timeline) - 1))
             last == timeline[Len(timeline)]
             before == Cardinality({i \in DOMAIN sorted : sorted[i].position <= last.position})
         IN  SubSeq(sorted, 1, before) \o <<last>> \o SubSeq(sorted, before + 1, Len(sorted))

\* _build_timeline(dates, entities)
BuildTimeline(dates, ents) ==
    SortByPosition([i \in DOMAIN dates |-> TimelineEntry(dates[i], ents)])

\* a record without its 'start' key
NoStart == -1

\* _build_timeline has no try/except: date_item['start'] raises KeyError for a
\* date without start, and the comprehension reads e['start'] of every entity
\* once for each date, so an entity without start raises when there is a date
TimelineRaises(dates, ents) ==
    \/ \E i \in DOMAIN dates : dates[i].start = NoStart
    \/ dates # <<>> /\ \E k \in DOMAIN ents : ents[k].start = NoStart

\* the date mentions: two whose windows overlap and one far from both
DateItems ==
    { [text |-> "2024-01-01", start |-> 500, end |-> 510],
      [text |-> "2024-01-01", start |-> 560, end |-> 570],
      [text |-> "March 3", start |-> 900, end |-> 907] }

MaxDates == 3

\* the date lists: every order of up to MaxDates different mentions
DateLists ==
    UNION {{ds \in [1..n -> DateItems] : \A i \in 1..n, j \in 1..n : ds[i] = ds[j] => i = j} :
           n \in 0..MaxDates}

\* the starts of the entities inside the window of the date at 500, the
\* nearest to its ends first
NearStarts == <<401, 599, 550, 500, 450, 520, 470, 530, 540>>
NearNames == <<"E1", "E2", "E3", "E4", "E5", "E6", "E7", "E8", "E9">>

MaxNear == 6

\* an entity list: near entities inside the window of the date at 500,
\* optionally one at each end of the window (distance exactly 100), one far
\* from every date that shares its text with the first near one, listed
\* before or after the near ones
EntityMentions(near, edges, far, farFirst) ==
    LET inside == [k \in 1..near |-> [text |-> NearNames[k], start |-> NearStarts[k]]]
        ends   == IF edges THEN << [text |-> "Low", start |-> 400],
                                   [text |-> "High", start |-> 600] >>
                  ELSE <<>>
        away   == IF far THEN << [text |-> NearNames[1], start |-> 700] >> ELSE <<>>
    IN  IF farFirst THEN away \o ends \o inside ELSE inside \o ends \o away

\* the records that may lack their start offset
Malformations == {"none", "date", "entity"}

\* the date list, with a last mention that has no start
DatesGiven(dates, malformed) ==
    IF malformed = "date"
    THEN Append(dates, [text |-> "someday", start |-> NoStart, end |-> NoStart])
    ELSE dates

\* the entity list, with a last entity that has no start
EntitiesGiven(ents, malformed) ==
    IF malformed = "entity" THEN Append(ents, [text |-> "Nemo", start |-> NoStart]) ELSE ents

InitTimeline ==
    \E dates \in DateLists, near \in 0..MaxNear, edges \in BOOLEAN, far \in BOOLEAN,
       farFirst \in BOOLEAN, malformed \in Malformations :
        /\ call = [op |-> "none", dates |-> DatesGiven(dates, malformed),
                   entities |-> EntitiesGiven(EntityMentions(near, edges, far, farFirst),
                                              malformed)]
        /\ reply = NoReply
        /\ documents = [d \in Docs |-> NoDocument]
        /\ entities = <<>>
        /\ analysis = <<>>
        /\ cache = [d \in Docs |-> NoEntry]
        /\ is_connected = TRUE
        /\ tasks = [s \in Slots |-> NoTask]
        /\ nruns = 0
        /\ writer = [d \in Docs |-> 0]
        /\ graph = NoGraph
        /\ requests = [r \in Reqs |-> NoRequest]
        /\ loop = "free"

\* line 79 inside the try of analyze_document: an exception of
\* _build_timeline leaves the try (raised), no timeline is stored, and the
\* except of lines 112-119 returns the result with status 'failed'
TimelineStep(dates, ents) ==
    IF TimelineRaises(dates, ents)
    THEN [raised |-> TRUE, timeline |-> <<>>, status |-> "failed"]
    ELSE [raised |-> FALSE, timeline |-> BuildTimeline(dates, ents), status |-> "completed"]

\* line 79: results['timeline'] = await self._build_timeline(dates, entities)
CallBuildTimeline ==
    /\ call.op = "none"
    /\ call' = [call EXCEPT !.op = "build_timeline"]
    /\ reply' = [op |-> "build_timeline"] @@ TimelineStep(call.dates, call.entities)
    /\ UNCHANGED <<documents, entities, analysis, cache, is_connected, tasks, nruns,
                   writer, graph, requests, loop>>

NextTimeline == CallBuildTimeline

SpecTimeline == InitTimeline /\ [][NextTimeline]_vars

(***************************************************************************)
(* What a run did, read from the stores and from the task's record.        *)
(***************************************************************************)
Ended(t) == t.pc = "done"

\* a run that was no cache hit and in which nothing raised
Clean(t) == Ended(t) /\ ~t.hit /\ t.raised = {}

\* a run that was no cache hit and in which nothing but the Redis client raised
CleanButCache(t) == Ended(t) /\ ~t.hit /\ t.raised \subseteq {"redis"}

\* the analysis records and the entity rows a run appended
RunRecords(t) ==
    {k \in DOMAIN analysis : /\ analysis[k].document_id = t.document_id
                             /\ analysis[k].analyzed_at = t.run}

RunEntityRows(t) ==
    {k \in DOMAIN entities : /\ entities[k].document_id = t.document_id
                             /\ entities[k].created_at = t.run}

\* the effects of a run up to its status update, in order
SaveOps(results) ==
    <<"analyzers">>
        \o (IF results.entities # <<>> THEN <<"entities">> ELSE <<>>)
        \o <<"analysis", "status">>

(***************************************************************************)
(* C1 .. C10                                                               *)
(***************************************************************************)

\* C1: when an analyzer raises in a run the trigger started, the document's
\* persisted analysis_status is 'failed' and its error field is non-empty at
\* the moment the background run ends.
C1_AnalyzerFailurePersisted ==
    [][\A s \in Slots :
          (InFlight(tasks[s]) /\ tasks'[s].pc = "done"
             /\ "analyzer" \in tasks'[s].raised)
          => /\ documents'[tasks[s].document_id].analysis_status = "failed"
             /\ documents'[tasks[s].document_id].error # ""]_vars

\* C2: a document whose status is 'processing' eventually has the status
\* 'completed' or 'failed', when every started background run is run to its
\* end (FairSpec), for every force value and cache content.
C2_ProcessingEnds ==
    \A d \in Docs :
        (documents[d].analysis_status = "processing")
            ~> (documents[d].analysis_status \in {"completed", "failed"})

\* the edges of the documented state machine
DocumentedEdges ==
    {<<"pending", "processing">>, <<"processing", "completed">>,
     <<"processing", "failed">>}

\* the edges a new trigger on an analysed document adds
ReanalysisEdges ==
    {<<"completed", "processing">>, <<"failed", "processing">>}

\* C3 as stated: the status of a document changes only along pending ->
\* processing, processing -> completed and processing -> failed.
C3_DocumentedEdgesOnly ==
    [][\A d \in Docs :
          (documents[d].exists
             /\ documents'[d].analysis_status # documents[d].analysis_status)
          => <<documents[d].analysis_status, documents'[d].analysis_status>>
                \in DocumentedEdges]_vars

\* C3, amended: the status of a document changes only along the documented
\* edges and, when an analysed document is triggered again, along completed ->
\* processing and failed -> processing.
C3_StatusEdges ==
    [][\A d \in Docs :
          (documents[d].exists
             /\ documents'[d].analysis_status # documents[d].analysis_status)
          => <<documents[d].analysis_status, documents'[d].analysis_status>>
                \in DocumentedEdges \cup ReanalysisEdges]_vars

\* a document back in 'processing' after a run had set it to 'completed'
C3_Witness ==
    \E s \in Slots, o \in Slots :
        /\ Ended(tasks[s]) /\ "status" \in Range(tasks[s].ops)
        /\ InFlight(tasks[o]) /\ tasks[o].run > tasks[s].run
        /\ tasks[o].document_id = tasks[s].document_id
        /\ "analyzers" \in Range(tasks[o].ops)
        /\ documents[tasks[s].document_id].analysis_status = "processing"
        /\ nruns = 2

\* C4: a run without force that finds the entry an earlier run cached returns
\* that run's result, and its step runs no analyzer (the builder's graph is
\* untouched), appends nothing to the store and writes nothing to the cache;
\* a lookup that Redis answers finds every entry that has not expired.
C4_HitReturnsCached ==
    [][/\ \A d \in Docs :
             (is_connected /\ cache[d] # NoEntry)
             => /\ AfterCacheLookup(GetCachedAnalysis(d, TRUE)) = "done"
                /\ GetCachedAnalysis(d, TRUE).value
                      = CompletedResults(writer[d], d, TextContent[d])
       /\ \A s \in Slots :
             (tasks[s].pc = "start" /\ tasks'[s].pc = "done" /\ tasks'[s].hit)
             => /\ tasks'[s].result
                      = CompletedResults(writer[tasks[s].document_id],
                                         tasks[s].document_id, tasks[s].text)
                /\ tasks'[s].ops = <<>>
                /\ entities' = entities /\ analysis' = analysis
                /\ cache' = cache /\ writer' = writer
                /\ graph' = graph /\ documents' = documents]_vars

\* a second run that returned the cached result, entities included
C4_Witness ==
    \E s \in Slots :
        /\ Ended(tasks[s]) /\ tasks[s].hit /\ ~tasks[s].force
        /\ tasks[s].result.status = "completed"
        /\ tasks[s].result.entities # <<>>
        /\ tasks[s].result.analyzed_at < tasks[s].run

\* C5: a run in which a store operation of the save raised returns
\* status = failed with an error message and writes nothing to the cache.
C5_StoreFailureFailsRun ==
    \A s \in Slots :
        (Ended(tasks[s]) /\ "store" \in tasks[s].raised)
        => /\ tasks[s].result.status = "failed"
           /\ tasks[s].result.error # ""
           /\ "cache" \notin Range(tasks[s].ops)

\* C6: a run that ended with status = failed appended no entity row and no
\* analysis record and wrote no cache entry, whichever stage raised.
C6_FailedRunWritesNothing ==
    \A s \in Slots :
        LET t == tasks[s]
        IN  (Ended(t) /\ t.result.status = "failed")
            => /\ RunRecords(t) = {}
               /\ RunEntityRows(t) = {}
               /\ writer[t.document_id] # t.run
               /\ cache[t.document_id] # NoEntry
                     => JsonLoads(cache[t.document_id]).analyzed_at # t.run
               /\ Range(t.ops) \subseteq {"analyzers"}

\* a failed run beside the record and the cache entry of an earlier run
C6_Witness ==
    \E s \in Slots :
        /\ Ended(tasks[s]) /\ tasks[s].result.status = "failed"
        /\ tasks[s].run = 2
        /\ Len(GetAnalysis(tasks[s].document_id)) = 1
        /\ entities # <<>>
        /\ cache[tasks[s].document_id] # NoEntry

\* C7: a run that was no cache hit and in which nothing raised ran the
\* analyzers, appended exactly one analysis record, set the status to
\* completed and only then wrote the cache (the write is a no-op in a service
\* that never connected to Redis); the store holds one record per such run
\* and no more records than runs, and the cache entry of the document is the
\* result of the run that wrote it last.
C7_CleanRunPersistsThenCaches ==
    /\ Len(analysis) <= nruns
    /\ \A s \in Slots :
          LET t == tasks[s]
          IN  Clean(t)
              => /\ t.result = t.results
                 /\ t.result = CompletedResults(t.run, t.document_id, t.text)
                 /\ t.ops = IF is_connected THEN Append(SaveOps(t.results), "cache")
                             ELSE SaveOps(t.results)
                 /\ Cardinality(RunRecords(t)) = 1
                 /\ Len(GetAnalysis(t.document_id)) >= Cardinality(
                        {o \in Slots : Clean(tasks[o])
                                       /\ tasks[o].document_id = t.document_id})
                 /\ writer[t.document_id] = t.run
                       => /\ "cache" \in Range(t.ops)
                          /\ cache[t.document_id] = JsonDumps(t.result)

\* two runs of one document, one after the other: two records in the order
\* of the runs, and the cache entry is the second run's result
C7_Witness ==
    \E s \in Slots, o \in Slots :
        /\ Clean(tasks[s]) /\ Clean(tasks[o])
        /\ tasks[s].run = 1 /\ tasks[o].run = 2 /\ tasks[o].force
        /\ tasks[s].document_id = "d1" /\ tasks[o].document_id = "d1"
        /\ Len(GetAnalysis("d1")) = 2
        /\ GetAnalysis("d1")[1].analyzed_at = 1
        /\ "cache" \in Range(tasks[s].ops)
        /\ cache["d1"] = JsonDumps(tasks[o].result)
        /\ documents["d1"].analysis_status = "completed"

\* C8: of two runs of one document that are in flight together, each can
\* take its next step wherever the other stands (neither blocks or
\* suppresses the other); two forced runs of one document in which nothing
\* raised both ran the analyzers and appended a record each; and a cache
\* entry is always the result of the run whose cache write came last.
C8_OverlappingRunsLastWriteWins ==
    /\ \A s \in Slots, o \in Slots :
          (/\ s # o /\ InFlight(tasks[s]) /\ InFlight(tasks[o])
           /\ tasks[s].document_id = tasks[o].document_id)
          => ENABLED TaskStep(s)
    /\ \A s \in Slots, o \in Slots :
          (/\ s # o /\ Clean(tasks[s]) /\ Clean(tasks[o])
           /\ tasks[s].force /\ tasks[o].force
           /\ tasks[s].document_id = tasks[o].document_id)
          => /\ "analyzers" \in Range(tasks[s].ops)
             /\ "analyzers" \in Range(tasks[o].ops)
             /\ Cardinality(RunRecords(tasks[s]) \cup RunRecords(tasks[o])) = 2
    /\ \A d \in Docs :
          cache[d] # NoEntry
          => /\ writer[d] \in 1..nruns
             /\ cache[d] = JsonDumps(CompletedResults(writer[d], d, TextContent[d]))

\* two forced runs of one document that overlapped: the run started second
\* appended its record first, the run started first wrote the cache last
C8_Witness ==
    \E s \in Slots, o \in Slots :
        /\ Clean(tasks[s]) /\ Clean(tasks[o])
        /\ tasks[s].force /\ tasks[o].force
        /\ tasks[s].run = 1 /\ tasks[o].run = 2
        /\ tasks[s].document_id = "d1" /\ tasks[o].document_id = "d1"
        /\ Len(GetAnalysis("d1")) = 2
        /\ GetAnalysis("d1")[1].analyzed_at = 2
        /\ "cache" \in Range(tasks[s].ops) /\ "cache" \in Range(tasks[o].ops)
        /\ writer["d1"] = 1
        /\ cache["d1"] = JsonDumps(tasks[s].result)

\* the inputs a request hands to build_graph
RequestEntities(q) == RecordEntities(q.document_id, q.kind)

RequestRelationships(q) == RecordRelationships(q.document_id, q.kind)

\* C9 as stated: between a request's build and its query another request can
\* be scheduled and rebuild the shared graph.
C9_RebuildBetweenBuildAndQuery ==
    \A r \in Reqs, q \in Reqs :
        (r # q /\ requests[r].pc = "query" /\ requests[q].pc = "get_analysis")
        => ENABLED Resume(q)

\* C9, amended: a build that does not raise replaces the shared graph, and
\* under every interleaving of the requests and of the background builds a
\* request whose build did not raise is answered from the graph built from
\* its own inputs.
C9_AnsweredFromOwnGraph ==
    \A r \in Reqs :
        LET q   == requests[r]
            own == BuiltGraph(RequestEntities(q), RequestRelationships(q))
        IN  ~BuildRaises(RequestEntities(q), RequestRelationships(q))
            => /\ q.pc = "query" => graph = own
               /\ (q.pc = "done" /\ q.http = 200)
                     => q.answer = EntityNeighbors(own, q.entity, q.depth)

\* two requests for different documents in progress together: the first has
\* its answer, the second has since rebuilt the graph, which now answers the
\* first request's query differently
C9_Witness ==
    \E r \in Reqs, o \in Reqs :
        /\ requests[r].pc = "done" /\ requests[r].http = 200
        /\ requests[r].overlap /\ requests[r].kind = "graph"
        /\ requests[o].pc = "query" /\ requests[o].kind = "graph"
        /\ requests[o].document_id # requests[r].document_id
        /\ requests[r].answer # {}
        /\ requests[r].answer
              # EntityNeighbors(graph, requests[r].entity, requests[r].depth)

\* C10: with Redis not connected or not answering, a get is a miss and a set
\* changes nothing, and neither raises; a run whose cache calls all failed
\* that way and in which nothing else raised returns status = completed with
\* its record in the store; and get_insights answers from the store for a
\* document that has a record.
C10_CacheDownFailsSoft ==
    /\ \A d \in Docs, c \in BOOLEAN, up \in BOOLEAN :
          (~c \/ ~up)
          => LET got == RedisGet(c, up, cache[d])
             IN  ~got.hit /\ ~got.raised
    /\ \A s \in Slots, c \in BOOLEAN, up \in BOOLEAN :
          (tasks[s].pc = "cache_analysis" /\ (~c \/ ~up))
          => LET d   == tasks[s].document_id
                 put == RedisSet(c, up, cache[d], tasks[s].results)
             IN  put.entry = cache[d] /\ ~put.ok /\ ~put.raised
    /\ \A s \in Slots :
          LET t == tasks[s]
          IN  /\ "cache" \notin t.raised
              /\ (~is_connected /\ Ended(t)) => ~t.hit /\ "cache" \notin Range(t.ops)
              /\ (CleanButCache(t) /\ "cache" \notin Range(t.ops))
                    => /\ t.result.status = "completed"
                       /\ t.ops = SaveOps(t.results)
                       /\ Cardinality(RunRecords(t)) = 1
    /\ \A d \in Docs :
          LET stored == GetAnalysis(d)
              answer == [error |-> "", source |-> "store",
                         analyzed_at |-> stored[1].analyzed_at]
          IN  stored # <<>>
              => /\ GetInsights(d, FALSE, TRUE) = answer
                 /\ ~is_connected => GetInsights(d, TRUE, TRUE) = answer

\* Redis connected but answering none of the calls: a forced run and a run
\* without force both ended completed with their records, and get_insights
\* reads the store
C10_Witness ==
    /\ is_connected
    /\ \E s \in Slots, o \in Slots :
          /\ CleanButCache(tasks[s]) /\ CleanButCache(tasks[o])
          /\ tasks[s].raised = {"redis"} /\ tasks[o].raised = {"redis"}
          /\ tasks[s].force /\ ~tasks[o].force
          /\ tasks[s].document_id = "d1" /\ tasks[o].document_id = "d1"
          /\ tasks[s].result.status = "completed"
          /\ Len(GetAnalysis("d1")) = 2
          /\ cache["d1"] = NoEntry
          /\ GetInsights("d1", FALSE, TRUE).source = "store"

(***************************************************************************)
(* The read handlers: get_insights and compare_documents (SpecReads).      *)
(***************************************************************************)
\* the cache lookup of the call in progress returns an analysis: Redis is
\* connected, answers, and holds an entry for the document
LookupAnswers(d, up) == is_connected /\ up /\ cache[d] # NoEntry

\* C11 as stated: get_insights uses the cached analysis whenever the cache
\* lookup returns one and does not read the store then, uses the persisted
\* analysis on a miss, and returns an error result exactly when neither the
\* cache lookup nor the store has an analysis for the document.
C11_ErrorExactlyWhenNeither ==
    reply.op = "get_insights" =>
        LET d == call.document_id
            stored == GetAnalysis(d)
            answers == LookupAnswers(d, call.up)
        IN  /\ answers => reply.result.source = "cache" /\ ~reply.store_read
            /\ (~answers /\ stored # <<>>) => reply.result.source = "store"
            /\ reply.result.error # "" <=> (~answers /\ stored = <<>>)

\* C11, amended: get_insights answers from the cached analysis whenever the
\* cache lookup returns one, and does not read the store then; when the
\* lookup returns nothing (no entry, or Redis not answering) it reads the
\* store and, unless that read raises, answers from the first persisted
\* analysis of the document; the result is an error exactly when the lookup
\* returned nothing and the store has no analysis for the document or
\* reading the store raised.
C11_CacheThenStore ==
    reply.op = "get_insights" =>
        LET d == call.document_id
            stored == GetAnalysis(d)
            answers == LookupAnswers(d, call.up)
            res == reply.result
        IN  /\ answers
                => /\ res.error = "" /\ res.source = "cache"
                   /\ res.analyzed_at = cache[d][2]
                   /\ ~reply.store_read
            /\ ~answers => reply.store_read
            /\ (~answers /\ call.storeOk /\ stored # <<>>)
                => /\ res.error = "" /\ res.source = "store"
                   /\ res.analyzed_at = stored[1].analyzed_at
            /\ res.error # "" <=> (~answers /\ (stored = <<>> \/ ~call.storeOk))

\* the store has two analyses of the document and the cache none, the read
\* of the store raised, and get_insights returned an error result
C11_Witness ==
    /\ reply.op = "get_insights"
    /\ cache[call.document_id] = NoEntry
    /\ Len(GetAnalysis(call.document_id)) = 2
    /\ ~call.storeOk
    /\ reply.store_read
    /\ reply.result.error # ""

\* C12: compare_documents returns an error whenever the cache lookup of
\* either document returns no analysis, also when the store holds analyses
\* of both, and it never reads the store; when both lookups return an
\* analysis it returns a comparison (the shared and the unique entity texts
\* of the two cached analyses) and no error.
C12_CompareNeedsBothCached ==
    reply.op = "compare_documents" =>
        LET d1 == call.doc_id1
            d2 == call.doc_id2
            both == LookupAnswers(d1, call.up1) /\ LookupAnswers(d2, call.up2)
            res == reply.result
            texts1 == {cache[d1][4][k].text : k \in DOMAIN cache[d1][4]}
            texts2 == {cache[d2][4][k].text : k \in DOMAIN cache[d2][4]}
        IN  /\ ~res.store_read
            /\ res.error # "" <=> ~both
            /\ both => /\ res.shared_entities = texts1 \cap texts2
                       /\ res.unique_entities_1 = texts1 \ texts2
                       /\ res.unique_entities_2 = texts2 \ texts1

\* both documents have an analysis in the store and only one of them has a
\* cache entry: the comparison is refused
C12_Witness ==
    /\ reply.op = "compare_documents"
    /\ call.doc_id1 # call.doc_id2
    /\ GetAnalysis(call.doc_id1) # <<>> /\ GetAnalysis(call.doc_id2) # <<>>
    /\ cache[call.doc_id1] # NoEntry /\ cache[call.doc_id2] = NoEntry
    /\ call.up1 /\ call.up2
    /\ reply.result.error # ""

\* both documents are cached and Redis answers: a comparison, no error
C12_WitnessCompared ==
    /\ reply.op = "compare_documents"
    /\ call.doc_id1 # call.doc_id2
    /\ LookupAnswers(call.doc_id1, call.up1) /\ LookupAnswers(call.doc_id2, call.up2)
    /\ reply.result.error = ""
    /\ reply.result.unique_entities_1 # reply.result.unique_entities_2

(***************************************************************************)
(* The knowledge-graph builder's functions (SpecBuild).                    *)
(***************************************************************************)
\* the adjacency order of the held graph lists exactly its edges
GraphOrderAgrees == Range(graph.order) = graph.edges

\* the texts of an entity list
TextsOf(ents) == {ents[i].text : i \in DOMAIN ents}

\* the labels an entity list uses
LabelsOf(ents) == {ents[i].label : i \in DOMAIN ents}

\* the explicit pass left the graph without an edge: no relationship at all,
\* or none with both its endpoints among the entity texts
NothingExplicit(ents, rels) ==
    \A i \in DOMAIN rels :
        rels[i].subject \notin TextsOf(ents) \/ rels[i].object \notin TextsOf(ents)

\* the texts of the first n entities of the list that carry the label
FirstLabelled(ents, label, n) ==
    {ents[i].text : i \in {j \in DOMAIN ents :
        /\ ents[j].label = label
        /\ Cardinality({k \in 1..j : ents[k].label = label}) <= n}}

\* C13: every edge of the graph that build_graph returns has its source and
\* its target among the node keys, the node keys are entity texts of the
\* list, and so a relationship whose subject or object is no entity text
\* leaves neither an edge nor a node; the same holds of the graph the
\* builder keeps.
C13_EdgesJoinEntityTexts ==
    reply.op = "build_graph" =>
        LET res == reply.result
            texts == TextsOf(call.entities)
        IN  /\ res.nodes \subseteq texts
            /\ \A e \in res.edges :
                  /\ e.source \in res.nodes /\ e.target \in res.nodes
                  /\ e.source \in texts /\ e.target \in texts
            /\ \A p \in graph.edges : p[1] \in Range(graph.nodes) /\ p[2] \in Range(graph.nodes)

\* relationships with an unknown subject or object were supplied next to
\* valid ones: the graph has the valid edges and no node "Zed"
C13_Witness ==
    /\ reply.op = "build_graph"
    /\ reply.result.error = ""
    /\ \E i \in DOMAIN call.relationships : call.relationships[i].subject = "Zed"
    /\ \E i \in DOMAIN call.relationships : call.relationships[i].object = "Zed"
    /\ \E e \in reply.result.edges : e.source = "P1" /\ e.target = "O1"
    /\ "Zed" \notin reply.result.nodes

\* C14: when the explicit pass adds no edge (no relationships, or none with
\* both endpoints among the entity texts) the built graph has an edge if and
\* only if the entities contain a PERSON and an ORG, or an ORG and a GPE;
\* and relationships that connect nothing give the same graph as no
\* relationships.
C14_FallbackEdgesIffPairs ==
    (reply.op = "build_graph" /\ reply.result.error = ""
        /\ NothingExplicit(call.entities, call.relationships))
    => LET labels == LabelsOf(call.entities)
       IN  /\ reply.result.edges # {}
                <=> ({"PERSON", "ORG"} \subseteq labels \/ {"ORG", "GPE"} \subseteq labels)
           /\ reply.result = GraphData(call.entities, <<>>)
           /\ graph = BuiltGraph(call.entities, <<>>)

\* relationships were supplied, none of them between two entity texts, and
\* the graph has the implicit edge from the person to the organisation
C14_Witness ==
    /\ reply.op = "build_graph"
    /\ reply.result.error = ""
    /\ call.relationships # <<>>
    /\ NothingExplicit(call.entities, call.relationships)
    /\ [source |-> "P1", target |-> "O1", relation |-> "associated_with"]
          \in reply.result.edges

\* C15: every edge the fallback synthesizes goes from one of the first 5
\* PERSON entities to one of the first 3 ORG entities with relation
\* associated_with, or from one of the first 5 ORG entities to one of the
\* first 3 GPE entities with relation located_in; such a graph has at most
\* 30 edges.
C15_FallbackEdgesBounded ==
    (reply.op = "build_graph" /\ reply.result.error = ""
        /\ NothingExplicit(call.entities, call.relationships))
    => /\ \A e \in reply.result.edges :
              \/ /\ e.relation = "associated_with"
                 /\ e.source \in FirstLabelled(call.entities, "PERSON", 5)
                 /\ e.target \in FirstLabelled(call.entities, "ORG", 3)
              \/ /\ e.relation = "located_in"
                 /\ e.source \in FirstLabelled(call.entities, "ORG", 5)
                 /\ e.target \in FirstLabelled(call.entities, "GPE", 3)
       /\ Cardinality(reply.result.edges) <= 30

\* six persons, six organisations and four places: the fallback graph has
\* its 30 edges and none from the sixth person or to the fourth place
C15_Witness ==
    /\ reply.op = "build_graph"
    /\ reply.result.error = ""
    /\ call.relationships = <<>>
    /\ Cardinality({i \in DOMAIN call.entities : call.entities[i].label = "PERSON"}) > 5
    /\ Cardinality({i \in DOMAIN call.entities : call.entities[i].label = "ORG"}) > 5
    /\ Cardinality({i \in DOMAIN call.entities : call.entities[i].label = "GPE"}) > 3
    /\ Cardinality(reply.result.edges) = 30

\* C16: the reported density is 0 for a graph of 0 or 1 nodes and
\* e / (n * (n - 1)) for n >= 2 nodes and e edges, n and e being the
\* reported total_nodes and total_edges, which count the returned nodes and
\* edges (the density is the fraction <<numerator, denominator>>).
C16_DensityOfDirectedGraph ==
    (reply.op = "build_graph" /\ reply.result.error = "")
    => LET st == reply.result.statistics
           n == st.total_nodes
           e == st.total_edges
       IN  /\ n = Cardinality(reply.result.nodes)
           /\ e = Cardinality(reply.result.edges)
           /\ st.density[2] > 0
           /\ n <= 1 => st.density[1] = 0
           /\ n >= 2 => st.density[1] * (n * (n - 1)) = e * st.density[2]

\* two nodes and one edge: the density is 1/2
C16_Witness ==
    /\ reply.op = "build_graph"
    /\ reply.result.error = ""
    /\ reply.result.statistics.total_nodes = 2
    /\ reply.result.statistics.total_edges = 1
    /\ reply.result.statistics.density = <<1, 2>>

\* one node with an edge to itself: the density is 0
C16_WitnessLoop ==
    /\ reply.op = "build_graph"
    /\ reply.result.error = ""
    /\ reply.result.statistics.total_nodes = 1
    /\ reply.result.statistics.total_edges = 1
    /\ reply.result.statistics.density[1] = 0

\* the nodes from which some walk of exactly j edges leads to v
RECURSIVE WalksTo(_, _, _)
WalksTo(g, v, j) ==
    IF j = 0 THEN {v}
    ELSE LET nearer == WalksTo(g, v, j - 1)
         IN  {p[1] : p \in {q \in g.edges : q[2] \in nearer}}

\* C19: get_entity_neighbors on the held graph returns for depth 1 exactly
\* the targets of the entity's outgoing edges, for a depth above 1 exactly
\* the nodes to which between 1 and depth outgoing edges lead from the
\* entity, without the entity itself, and nothing with count 0 when the
\* entity is no node; count is the number of neighbors returned.
C19_NeighborsFollowOutgoingEdges ==
    reply.op = "get_entity_neighbors" =>
        LET e == call.entity
            nodes == Range(graph.nodes)
        IN  /\ reply.count = Cardinality(reply.neighbors)
            /\ e \notin nodes => reply.neighbors = {} /\ reply.count = 0
            /\ (e \in nodes /\ call.depth = 1)
                  => reply.neighbors = {v \in nodes : <<e, v>> \in graph.edges}
            /\ (e \in nodes /\ call.depth > 1)
                  => reply.neighbors =
                        {v \in nodes : \E j \in 1..call.depth : e \in WalksTo(graph, v, j)}
                        \ {e}

\* depth 2 from a person in a fallback graph: a place two edges away is
\* returned though no edge leads to it from the person
C19_Witness ==
    /\ reply.op = "get_entity_neighbors"
    /\ call.entity = "P1" /\ call.depth = 2
    /\ "G1" \in reply.neighbors /\ <<"P1", "G1">> \notin graph.edges
    /\ reply.count > 1

\* depth 1 from an organisation: its persons, predecessors only, are left out
C19_WitnessPredecessor ==
    /\ reply.op = "get_entity_neighbors"
    /\ call.entity = "O1" /\ call.depth = 1
    /\ <<"P1", "O1">> \in graph.edges /\ "P1" \notin reply.neighbors
    /\ reply.neighbors # {}

\* the simple paths of at most k edges that end in target, grown backwards
\* from the target
RECURSIVE PathsInto(_, _, _)
PathsInto(g, target, k) ==
    IF k = 0 THEN {<<target>>}
    ELSE LET shorter == PathsInto(g, target, k - 1)
         IN  shorter \cup
             UNION {{<<e[1]>> \o p : e \in {q \in g.edges : q[2] = p[1]
                                                            /\ q[1] \notin Range(p)}} :
                    p \in shorter}

\* a path of the graph from source to target that repeats no node
IsSimplePath(g, p, source, target) ==
    /\ p # <<>> /\ p[1] = source /\ p[Len(p)] = target
    /\ \A i \in 1..(Len(p) - 1) : <<p[i], p[i + 1]>> \in g.edges
    /\ \A i \in DOMAIN p, j \in DOMAIN p : p[i] = p[j] => i = j

\* C20: find_paths returns at most 10 paths, each from source to target
\* along the edges' direction, without a repeated node and of at most 4
\* edges; when the graph has 10 or fewer such paths it returns all of them;
\* it returns none when source or target is no node.  (From a node to itself
\* the only such path is the node alone; the graph library returns it or
\* nothing, depending on its release.)
C20_PathsSimpleShortAndCapped ==
    reply.op = "find_paths" =>
        LET src == call.source
            tgt == call.target
            nodes == Range(graph.nodes)
            such == {p \in PathsInto(graph, tgt, 4) :
                        Len(p) > 1 /\ IsSimplePath(graph, p, src, tgt)}
        IN  /\ Len(reply.paths) <= 10
            /\ \A i \in DOMAIN reply.paths, j \in DOMAIN reply.paths :
                  reply.paths[i] = reply.paths[j] => i = j
            /\ \A i \in DOMAIN reply.paths :
                  /\ IsSimplePath(graph, reply.paths[i], src, tgt)
                  /\ Len(reply.paths[i]) - 1 <= 4
            /\ (src \notin nodes \/ tgt \notin nodes) => reply.paths = <<>>
            /\ (src \in nodes /\ tgt \in nodes /\ Cardinality(such) <= 10)
                  => such \subseteq Range(reply.paths)

\* a graph with more than 10 simple paths between two nodes and with simple
\* paths of 5 edges between them: 10 are returned, one of them of 4 edges
C20_Witness ==
    /\ reply.op = "find_paths"
    /\ call.source # call.target
    /\ Len(reply.paths) = 10
    /\ \E i \in DOMAIN reply.paths : Len(reply.paths[i]) = 5
    /\ \E p \in PathsInto(graph, call.target, 5) :
          Len(p) = 6 /\ IsSimplePath(graph, p, call.source, call.target)

\* fewer than 10 paths exist and all are returned, one of them of 2 edges
C20_WitnessAll ==
    /\ reply.op = "find_paths"
    /\ Len(reply.paths) > 1 /\ Len(reply.paths) < 10
    /\ \E i \in DOMAIN reply.paths : Len(reply.paths[i]) = 3

(***************************************************************************)
(* The timeline builder (SpecTimeline).                                    *)
(***************************************************************************)
\* the timeline entries made for a date mention
EntriesOf(d) ==
    {i \in DOMAIN reply.timeline :
        reply.timeline[i].position = d.start /\ reply.timeline[i].date = d.text}

\* the entities of the call within 100 characters of the date's start
IsNear(e, d) == Abs(e.start - d.start) < 100

\* C17 as stated: an entity's text is among the related_entities of a date's
\* entry if and only if the entity starts less than 100 characters from the
\* date's start.
C17_AttachedIffNear ==
    reply.op = "build_timeline" =>
        \A d \in Range(call.dates), k \in DOMAIN call.entities :
            \A i \in EntriesOf(d) :
                (call.entities[k].text \in Range(reply.timeline[i].related_entities))
                    <=> IsNear(call.entities[k], d)

\* C17, amended: the related_entities of a date's entry are the texts of the
\* first 5 entities of the list that start less than 100 characters from the
\* date's start, in the order of the list; an entity at distance 100 or more
\* is not among them, and neither is a sixth or later entity inside the
\* window.
C17_FirstFiveNearAttached ==
    reply.op = "build_timeline" /\ ~reply.raised =>
        \A d \in Range(call.dates) : \A i \in EntriesOf(d) :
            LET ents == call.entities
                related == reply.timeline[i].related_entities
                near == {k \in DOMAIN ents : IsNear(ents[k], d)}
                rank(k) == Cardinality({j \in near : j <= k})
            IN  /\ Len(related) = Min2(Cardinality(near), 5)
                /\ \A k \in near : rank(k) <= 5 => related[rank(k)] = ents[k].text
                /\ \A j \in DOMAIN related :
                      \E k \in near : rank(k) = j /\ related[j] = ents[k].text

\* six entities inside the window of the date at 500 and one at each end of
\* it: five are attached, the sixth and the two at distance 100 are not
C17_Witness ==
    /\ reply.op = "build_timeline"
    /\ \E i \in DOMAIN reply.timeline :
          /\ reply.timeline[i].position = 500
          /\ Len(reply.timeline[i].related_entities) = 5
          /\ "E6" \notin Range(reply.timeline[i].related_entities)
          /\ "Low" \notin Range(reply.timeline[i].related_entities)
          /\ "High" \notin Range(reply.timeline[i].related_entities)
    /\ \E k \in DOMAIN call.entities : call.entities[k].text = "E6"
    /\ \E k \in DOMAIN call.entities : call.entities[k].start = 400
    /\ \E k \in DOMAIN call.entities : call.entities[k].start = 600

\* C18: the timeline that _build_timeline returns has exactly one entry per
\* date mention, with the mention's start as its position, and its positions
\* are non-decreasing whatever the order of the dates.
C18_OneEntryPerDateSorted ==
    reply.op = "build_timeline" /\ ~reply.raised =>
        /\ Len(reply.timeline) = Len(call.dates)
        /\ \A d \in Range(call.dates) : Cardinality(EntriesOf(d)) = 1
        /\ \A i \in DOMAIN reply.timeline, j \in DOMAIN reply.timeline :
              i < j => reply.timeline[i].position <= reply.timeline[j].position

\* three dates given from the last to the first: the timeline is in order
C18_Witness ==
    /\ reply.op = "build_timeline"
    /\ Len(call.dates) = 3
    /\ Len(reply.timeline) = 3
    /\ call.dates[1].start > call.dates[2].start
    /\ call.dates[2].start > call.dates[3].start
    /\ reply.timeline[1].position < reply.timeline[2].position
    /\ reply.timeline[2].position < reply.timeline[3].position

\* C22 as stated: the timeline builder catches every internal error (a date
\* or entity record without a start offset) and degrades to an empty
\* timeline, so the enclosing analyze run does not fail.
C22_TimelineErrorsCaught ==
    reply.op = "build_timeline" =>
        /\ ~reply.raised
        /\ reply.status = "completed"
        /\ (\/ \E i \in DOMAIN call.dates : call.dates[i].start = NoStart
            \/ \E k \in DOMAIN call.entities : call.entities[k].start = NoStart)
              => reply.timeline = <<>>

(***************************************************************************)
(* build_graph: errors, nodes and explicit edges (SpecBuild).              *)
(***************************************************************************)
\* a record of the lists makes build_graph raise inside: an entity without
\* text or label, a relationship without subject, or one without object
\* whose subject is a node (the object is read only then)
InternalError(ents, rels) ==
    \/ \E i \in DOMAIN ents : Missing \in {ents[i].text, ents[i].label}
    \/ \E i \in DOMAIN rels :
          \/ rels[i].subject = Missing
          \/ rels[i].object = Missing /\ rels[i].subject \in TextsOf(ents)

\* C21: build_graph never raises to its caller; when an internal error
\* occurs it returns no nodes, no edges, empty statistics and an error
\* message, and it returns no error otherwise.
C21_BuildNeverRaises ==
    reply.op = "build_graph" =>
        /\ ~reply.result.raised
        /\ InternalError(call.entities, call.relationships)
              => /\ reply.result.error # ""
                 /\ reply.result.nodes = {} /\ reply.result.edges = {}
                 /\ reply.result.statistics = NoStatistics
        /\ ~InternalError(call.entities, call.relationships) => reply.result.error = ""

\* a relationship of a known person without an object: the error result
C21_Witness ==
    /\ reply.op = "build_graph"
    /\ \E i \in DOMAIN call.relationships : call.relationships[i].object = Missing
    /\ call.entities # <<>>
    /\ reply.result.error # "" /\ reply.result.nodes = {}

\* the same relationship without the person among the entities: no error
C21_WitnessNotRead ==
    /\ reply.op = "build_graph"
    /\ \E i \in DOMAIN call.relationships : call.relationships[i].object = Missing
    /\ call.entities # <<>>
    /\ reply.result.error = "" /\ reply.result.nodes # {}

\* C23: the built graph has exactly one node per distinct entity text:
\* total_nodes is the number of distinct texts of the entity list, and the
\* type of a node is the label of the last entity of the list with its text.
C23_OneNodePerText ==
    reply.op = "build_graph" /\ reply.result.error = "" =>
        LET ents == call.entities
        IN  /\ reply.result.nodes = TextsOf(ents)
            /\ reply.result.statistics.total_nodes = Cardinality(TextsOf(ents))
            /\ Len(graph.nodes) = Cardinality(TextsOf(ents))
            /\ \A i \in DOMAIN ents :
                  (\A j \in DOMAIN ents : j > i => ents[j].text # ents[i].text)
                      => /\ reply.result.type[ents[i].text] = ents[i].label
                         /\ graph.type[ents[i].text] = ents[i].label

\* a text given first as a person and later under another label: one node,
\* fewer nodes than entities, typed by the later label
C23_Witness ==
    /\ reply.op = "build_graph" /\ reply.result.error = ""
    /\ \E i \in DOMAIN call.entities, j \in DOMAIN call.entities :
          /\ i < j
          /\ call.entities[i].text = call.entities[j].text
          /\ call.entities[i].label = "PERSON"
          /\ call.entities[j].label # "PERSON"
          /\ reply.result.type[call.entities[i].text] = call.entities[j].label
    /\ reply.result.statistics.total_nodes < Len(call.entities)
    /\ reply.result.statistics.total_nodes > 1

(***************************************************************************)
(* The read path over the persisted records (SpecReads).                   *)
(***************************************************************************)
\* the analyzed_at of the record that the latest run wrote for the document
LatestPersisted(d) ==
    MaxOf({analysis[k].analyzed_at : k \in {j \in DOMAIN analysis : analysis[j].document_id = d}})

\* C24 as stated: when the cache has no complete result, GET analysis and
\* the store fallback of get_insights return the most recent persisted
\* record of the document, the one the latest run wrote.
C24_ReadsLatestRecord ==
    /\ reply.op = "get_analysis" /\ reply.result.status = "ok" /\ ~reply.result.cached
          => reply.result.analyzed_at = LatestPersisted(call.document_id)
    /\ reply.op = "get_insights" /\ reply.result.source = "store"
          => reply.result.analyzed_at = LatestPersisted(call.document_id)

\* C25 as stated: for a document with one successful run, get_insights
\* returns the same insights from the persisted store (cache unreachable or
\* expired) as from the cache: the persisted record carries every field of
\* the cached result that insight generation reads.
C25_SameInsightsFromStore ==
    reply.op = "get_insights" /\ reply.result.source = "store" =>
        LET d == call.document_id
        IN  (/\ Len(GetAnalysis(d)) = 1
             /\ cache[d] # NoEntry
             /\ JsonLoads(cache[d]).analyzed_at = GetAnalysis(d)[1].analyzed_at)
                => reply.insights = EntityInsights(JsonLoads(cache[d]))

(***************************************************************************)
(* The stored entity rows and the cache entries of the pipeline (Spec).    *)
(***************************************************************************)
\* C26 as stated: after successful analyze runs on one document (forced
\* re-analyses included) the entity rows stored for the document are exactly
\* the entities of its latest run; no row of an earlier run is left.
C26_RowsOfLatestRunOnly ==
    \A s \in Slots :
        LET t == tasks[s]
        IN  (/\ Clean(t)
             /\ \A o \in Slots :
                   (tasks[o] # NoTask /\ tasks[o].document_id = t.document_id)
                       => Clean(tasks[o]) /\ tasks[o].run <= t.run)
            => GetEntitiesByDocument(t.document_id) = EntityRows(t.result)

\* C27: in every reachable state a cache entry of a document holds a result
\* with status completed: a failed result is never written to the cache, so
\* a run without force that returns from the cache returns a completed
\* result.
C27_CacheHoldsCompletedOnly ==
    /\ \A d \in Docs :
          cache[d] # NoEntry
             => /\ JsonLoads(cache[d]).status = "completed"
                /\ JsonLoads(cache[d]).document_id = d
    /\ \A s \in Slots :
          LET t == tasks[s]
          IN  /\ (Ended(t) /\ t.hit) => t.result.status = "completed"
              /\ (Ended(t) /\ t.result.status = "failed")
                    => cache[t.document_id] # JsonDumps(t.result)

\* a forced run that failed after an earlier run cached its result: the
\* entry is still the completed result of the earlier run
C27_Witness ==
    \E s \in Slots :
        LET t == tasks[s]
        IN  /\ Ended(t) /\ t.force /\ t.result.status = "failed"
            /\ "analyzer" \in t.raised
            /\ cache[t.document_id] # NoEntry
            /\ JsonLoads(cache[t.document_id]).status = "completed"
            /\ JsonLoads(cache[t.document_id]).analyzed_at < t.run

\* a run without force that returned the cached completed result
C27_WitnessHit ==
    \E s \in Slots :
        /\ Ended(tasks[s]) /\ tasks[s].hit /\ ~tasks[s].force
        /\ tasks[s].result.status = "completed"
        /\ tasks[s].result.analyzed_at < tasks[s].run

(***************************************************************************)
(* Queries after a build that failed (SpecKG) and the neighbors and edges  *)
(* of a built graph (SpecBuild).                                           *)
(***************************************************************************)
\* C28 as stated: graph queries answer from the graph of the most recent
\* build call: after a build call that returned an error result they return
\* empty results, not answers computed from the graph of an earlier
\* successful build.
C28_EmptyAfterErrorBuild ==
    \A r \in Reqs :
        LET q == requests[r]
        IN  (/\ q.pc = "done" /\ q.http = 200
             /\ GraphData(RequestEntities(q), RequestRelationships(q)).error # "")
            => q.answer = {}

\* C29 as stated: for every built graph, every entity and every depth >= 1
\* the neighbors never contain the origin entity, also when the graph has an
\* edge from the entity to itself.
C29_NeverTheOrigin ==
    reply.op = "get_entity_neighbors" => call.entity \notin reply.neighbors

\* C29, amended: for depth > 1 the neighbors never contain the origin
\* entity; for depth = 1 they contain it exactly when the graph has an edge
\* from the entity to itself.
C29_OriginOnlyBySelfLoop ==
    reply.op = "get_entity_neighbors" =>
        (call.entity \in reply.neighbors
            <=> (call.depth = 1 /\ <<call.entity, call.entity>> \in graph.edges))

\* the direct neighbors of an entity with an edge to itself include it
C29_Witness ==
    /\ reply.op = "get_entity_neighbors"
    /\ call.depth = 1
    /\ <<call.entity, call.entity>> \in graph.edges
    /\ call.entity \in reply.neighbors
    /\ reply.count > 1

\* at a greater depth the entity with an edge to itself is left out
C29_WitnessDeeper ==
    /\ reply.op = "get_entity_neighbors"
    /\ call.depth > 1
    /\ <<call.entity, call.entity>> \in graph.edges
    /\ call.entity \notin reply.neighbors
    /\ reply.neighbors # {}

\* C30: when at least one supplied relationship has both endpoints among
\* the entity texts, build_graph synthesizes no implicit edge: every edge of
\* the result is the (subject, object) pair of a supplied relationship and
\* carries the relation of the last relationship of the list with that pair,
\* related_to when that relationship has none; and every such pair is an edge.
C30_ExplicitEdgesOnly ==
    (reply.op = "build_graph" /\ reply.result.error = ""
        /\ ~NothingExplicit(call.entities, call.relationships))
    => LET rels == call.relationships
           texts == TextsOf(call.entities)
           joins(i) == rels[i].subject \in texts /\ rels[i].object \in texts
           lastOf(i, e) ==
               /\ joins(i)
               /\ rels[i].subject = e.source /\ rels[i].object = e.target
               /\ \A j \in DOMAIN rels :
                     (j > i /\ rels[j].subject = e.source) => rels[j].object # e.target
       IN  /\ \A e \in reply.result.edges :
                 \E i \in DOMAIN rels :
                     /\ lastOf(i, e)
                     /\ e.relation = IF rels[i].relation = Missing THEN "related_to"
                                     ELSE rels[i].relation
           /\ \A i \in DOMAIN rels :
                 joins(i) => \E e \in reply.result.edges :
                                 e.source = rels[i].subject /\ e.target = rels[i].object

\* two relationships of one pair, one without relation and a second person
\* beside an organisation: the pair carries the later relation, the other
\* edge related_to, and the second person has no edge
C30_Witness ==
    /\ reply.op = "build_graph" /\ reply.result.error = ""
    /\ \E i \in DOMAIN call.relationships, j \in DOMAIN call.relationships :
          /\ i < j
          /\ call.relationships[i].subject = "P1" /\ call.relationships[i].object = "O1"
          /\ call.relationships[j].subject = "P1" /\ call.relationships[j].object = "O1"
          /\ call.relationships[i].relation # call.relationships[j].relation
          /\ [source |-> "P1", target |-> "O1", relation |-> call.relationships[j].relation]
                \in reply.result.edges
    /\ \E e \in reply.result.edges : e.relation = "related_to"
    /\ "P2" \in reply.result.nodes
    /\ \A e \in reply.result.edges : e.source # "P2"

====
